---- MODULE Spec2Model ----
(***************************************************************************)
(* A model of sentinel-ai: the allowlist-enforcing command Runner, the     *)
(* Patcher path guard, the audit logger and the Engine that sequences a    *)
(* scan and turns its totals into an exit code.                            *)
(*                                                                         *)
(* Nine specifications share the variables:                                *)
(*   SpecRunner   a Runner on which Run is called (internal/tools)         *)
(*   SpecWrappers a Runner on which Build, Test and Coverage are called    *)
(*   SpecRunSteps one Run, step by step: the process it starts, the        *)
(*                context that ends and the kill that follows              *)
(*   SpecPatcher  a Patcher whose guard and ApplyPatch are called          *)
(*   SpecLogger   an AuditLogger on which LogToolCall is called            *)
(*   SpecLogOps   an AuditLogger on which any of its five logging          *)
(*                operations is called                                     *)
(*   SpecSarif    a Scanner whose GenerateSARIF is called                  *)
(*   SpecScan     an Engine whose Scan is called once, on an audit log     *)
(*                file that may refuse writes                              *)
(*   Spec         one CLI process: policy.Load, engine.New, then Scan,     *)
(*                Apply or CreatePR                                        *)
(* Strings that are only compared are TLA+ strings; paths, whose prefixes  *)
(* and glob matches are computed, are sequences of one-character strings.  *)
(***************************************************************************)
EXTENDS Integers, Sequences, FiniteSets, TLC

VARIABLES
    Allow,        \* Runner.Allow: the allowlist, a sequence of tuples
    Timeout,      \* Runner.Timeout, in seconds
    redact,       \* AuditLogger.redact
    trace,        \* what the most recent top-level call did, in order
    runResult,    \* the RunResult of the most recent Runner.Run
    auditLog,     \* the records of the audit log file, oldest first
    logCall,      \* SpecLogger: the arguments of the most recent LogToolCall
    loadRec,      \* Spec: what policy.Load read and returned
    sarifCall,    \* SpecSarif: the results handed to GenerateSARIF, the document
    scanRec,      \* the most recent Engine.Scan: what it saw and returned
    scanCall,     \* SpecScan: the options and the environment of the Scan call
    applyResult,  \* what Engine.Apply returned
    prResult,     \* what Engine.CreatePR returned
    patcher,      \* the Patcher: Workspace, DenyPaths, DenyGlobs
    cwd,          \* the process's working directory (filepath.Abs reads it)
    patchCall,    \* SpecPatcher: the call made on the Patcher and its argument
    patchResult,  \* what Patcher.ApplyPatch returned
    pc            \* Spec: where the command's RunE is ("start", "loaded",
                  \* "ready", "done", or "loadFailed", "newFailed");
                  \* SpecRunSteps: where the Run is ("idle", "running",
                  \* "ctxDone", "exited", "returned")

vars == <<Allow, Timeout, redact, trace, runResult, auditLog, logCall, loadRec,
          sarifCall, scanRec, scanCall, applyResult, prResult, patcher, cwd, patchCall,
          patchResult, pc>>

runnerVars  == <<Allow, Timeout>>
engineVars  ==
    <<redact, auditLog, logCall, loadRec, sarifCall, scanRec, scanCall, applyResult,
      prResult, pc>>
patcherVars == <<patcher, cwd, patchCall, patchResult>>

None == "none"
Nil  == "nil"          \* a nil Go error

(***************************************************************************)
(* Bounds of the model.                                                    *)
(***************************************************************************)
MaxAllow    == 2       \* tuples in a generated allowlist
MaxTupleArgs == 1      \* arguments in a generated allowlist tuple
MaxArgs     == 2       \* arguments of a generated invocation
MaxFindings == 2       \* findings semgrep reports
MaxSymbols  == 2       \* symbols the dead-code analysis collects
MaxDepth    == 3       \* segments of a generated path
MaxPatches  == 2       \* target files of a diff
MaxArgLen   == 22      \* characters of a generated log argument
MaxErrLen   == 101     \* characters of a generated error text
MaxResults  == 2       \* adapter results handed to GenerateSARIF
MaxLogWrites == 4      \* writeEntry calls whose outcome is drawn

RECURSIVE SeqsUpTo(_, _)
SeqsUpTo(S, n) ==
    IF n = 0 THEN {<<>>}
    ELSE LET shorter == SeqsUpTo(S, n - 1)
         IN  shorter \cup {Append(s, x) : s \in {t \in shorter : Len(t) = n - 1}, x \in S}

Range(s) == {s[i] : i \in 1..Len(s)}

\* F applied to the value of v, which is computed once.
With(v, F(_)) == CHOOSE r \in {F(x) : x \in {v}} : TRUE

(***************************************************************************)
(* internal/tools/runner.go                                                *)
(***************************************************************************)

\* The inner loop of Runner.allowed, lines 72-77: i runs over 1..len(allowed)-1
\* (Go index), comparing allowed[i] with args[i-1].
RECURSIVE argsMatchFrom(_, _, _)
argsMatchFrom(tuple, args, i) ==
    IF i > Len(tuple) THEN TRUE
    ELSE IF tuple[i] # args[i - 1] THEN FALSE
    ELSE argsMatchFrom(tuple, args, i + 1)

\* A plausible slip: the length test accepts a tuple that is a prefix of the
\* invocation (len(allowed) <= len(args)+1).
RECURSIVE allowedPrefixFrom(_, _, _, _)
allowedPrefixFrom(allow, cmd, args, k) ==
    IF k > Len(allow) THEN FALSE
    ELSE LET tuple == allow[k]
         IN  IF /\ Len(tuple) >= 1
                /\ Len(tuple) <= Len(args) + 1
                /\ tuple[1] = cmd
                /\ argsMatchFrom(tuple, args, 2)
             THEN TRUE
             ELSE allowedPrefixFrom(allow, cmd, args, k + 1)

allowedPrefix(allow, cmd, args) == allowedPrefixFrom(allow, cmd, args, 1)

\* Another slip: the program name alone decides.
allowedByProgram(allow, cmd, args) ==
    \E k \in 1..Len(allow) : Len(allow[k]) >= 1 /\ allow[k][1] = cmd

\* The outer loop of Runner.allowed, lines 69-83, from tuple k on.
RECURSIVE allowedFrom(_, _, _, _)
allowedFrom(allow, cmd, args, k) ==
    IF k > Len(allow) THEN FALSE
    ELSE LET tuple == allow[k]
         IN  IF /\ Len(tuple) = Len(args) + 1
                /\ tuple[1] = cmd
                /\ argsMatchFrom(tuple, args, 2)
             THEN TRUE
             ELSE allowedFrom(allow, cmd, args, k + 1)

\* Runner.allowed
allowed(allow, cmd, args) == allowedFrom(allow, cmd, args, 1)

ErrNotAllowlisted == "command not allowlisted"
ErrDeadline       == "context deadline exceeded"
ErrKilled         == "signal: killed"
ErrExit           == "exit status 1"
ErrStart          == "exec: executable file not found in $PATH"
ErrCanceled       == "context canceled"

\* What exec.CommandContext(...).CombinedOutput() can do with an allowed
\* command.  With a zero timeout the derived context has already expired and
\* Cmd.Start returns its error before any process exists.
ProcOutcomes(timeout) ==
    IF timeout <= 0 THEN {"expired"}
    ELSE {"exit0", "exitNonZero", "startFail", "killed"}

ProcStarted(outcome) == outcome \in {"exit0", "exitNonZero", "killed"}

ProcError(outcome) ==
    CASE outcome = "exit0"       -> Nil
      [] outcome = "exitNonZero" -> ErrExit
      [] outcome = "startFail"   -> ErrStart
      [] outcome = "killed"      -> ErrKilled
      [] outcome = "expired"     -> ErrDeadline

\* execCmd.ProcessState.ExitCode(); 0 is the zero value kept when ProcessState
\* is nil, -1 is what ExitCode reports for a process ended by a signal.
ProcExitCode(outcome) ==
    CASE outcome = "exit0"       -> 0
      [] outcome = "exitNonZero" -> 1
      [] outcome = "killed"      -> -1
      [] OTHER                   -> 0

CheckEv(cmd, args, ok) == [kind |-> "check", cmd |-> cmd, args |-> args, ok |-> ok]
StartEv(cmd, args)     == [kind |-> "start", cmd |-> cmd, args |-> args, ok |-> TRUE]

\* Runner.Run with the allowlist check skipped.
RunUnchecked(allow, timeout, cmd, args, outcome) ==
    [result |-> [Error |-> ProcError(outcome), ExitCode |-> ProcExitCode(outcome)],
     events |-> <<CheckEv(cmd, args, allowed(allow, cmd, args))>> \o
                (IF ProcStarted(outcome) THEN <<StartEv(cmd, args)>> ELSE <<>>)]

\* Runner.Run: the RunResult and the events of the call.  `outcome` is what
\* the operating system does with the process if one is launched.
RunOp(allow, timeout, cmd, args, outcome) ==
    IF ~allowed(allow, cmd, args)
    THEN [result |-> [Error |-> ErrNotAllowlisted, ExitCode |-> 0],
          events |-> <<CheckEv(cmd, args, FALSE)>>]
    ELSE [result |-> [Error |-> ProcError(outcome), ExitCode |-> ProcExitCode(outcome)],
          events |-> <<CheckEv(cmd, args, TRUE)>> \o
                     (IF ProcStarted(outcome) THEN <<StartEv(cmd, args)>> ELSE <<>>)]

LookPathEv(file, found) == [kind |-> "lookpath", cmd |-> file, args |-> <<>>, ok |-> found]

ErrNoBuildSystem == "no supported build system found"

\* Runner.Build with the allowlist check skipped when a target is given.
BuildUnchecked(allow, timeout, target, goOnPath, cargoOnPath, outcome) ==
    IF target = ""
    THEN IF goOnPath
         THEN With(RunOp(allow, timeout, "go", <<"build", "./...">>, outcome),
                   LAMBDA r : [r EXCEPT !.events = <<LookPathEv("go", TRUE)>> \o r.events])
         ELSE IF cargoOnPath
         THEN With(RunOp(allow, timeout, "cargo", <<"build">>, outcome),
                   LAMBDA r : [r EXCEPT !.events = <<LookPathEv("go", FALSE),
                                                     LookPathEv("cargo", TRUE)>> \o r.events])
         ELSE [result |-> [Error |-> ErrNoBuildSystem, ExitCode |-> 0],
               events |-> <<LookPathEv("go", FALSE), LookPathEv("cargo", FALSE)>>]
    ELSE RunUnchecked(allow, timeout, "go", <<"build", target>>, outcome)

\* Runner.Build: the RunResult and the events of the call.  goOnPath and
\* cargoOnPath are what exec.LookPath finds.
Build(allow, timeout, target, goOnPath, cargoOnPath, outcome) ==
    IF target = ""
    THEN IF goOnPath
         THEN With(RunOp(allow, timeout, "go", <<"build", "./...">>, outcome),
                   LAMBDA r : [r EXCEPT !.events = <<LookPathEv("go", TRUE)>> \o r.events])
         ELSE IF cargoOnPath
         THEN With(RunOp(allow, timeout, "cargo", <<"build">>, outcome),
                   LAMBDA r : [r EXCEPT !.events = <<LookPathEv("go", FALSE),
                                                     LookPathEv("cargo", TRUE)>> \o r.events])
         ELSE [result |-> [Error |-> ErrNoBuildSystem, ExitCode |-> 0],
               events |-> <<LookPathEv("go", FALSE), LookPathEv("cargo", FALSE)>>]
    ELSE RunOp(allow, timeout, "go", <<"build", target>>, outcome)

\* Runner.Test
Test(allow, timeout, pattern, outcome) ==
    RunOp(allow, timeout, "go",
          <<"test">> \o (IF pattern # "" THEN <<"-run", pattern>> ELSE <<>>)
                     \o <<"-cover", "./...">>,
          outcome)

\* Runner.Coverage
CoverageArgs == <<"test", "-coverprofile=coverage.out", "./...">>
Coverage(allow, timeout, outcome) == RunOp(allow, timeout, "go", CoverageArgs, outcome)

(***************************************************************************)
(* SpecRunner: a Runner built by NewRunner from any allowlist of the       *)
(* bounded family, on which Run is called with any invocation.             *)
(***************************************************************************)
\* DefaultPolicy's allowlist (policy, lines 98-108) and the one of TestRunner.
DefaultAllowlist ==
    << <<"go", "build">>,
       <<"go", "test", "-cover">>,
       <<"cargo", "build">>,
       <<"cargo", "llvm-cov">>,
       <<"semgrep", "--config", "auto">>,
       <<"codeql", "database", "analyze">>,
       <<"gh", "pr", "create">> >>

TestAllowlist ==
    << <<"go", "build">>, <<"go", "test", "-cover">>, <<"echo", "hello">> >>

Programs   == {"go", "rm"}
ArgTokens  == {"build", "--unsafe"}
ArgVectors == SeqsUpTo(ArgTokens, MaxArgs)
\* Generated tuples: "go" followed by up to MaxTupleArgs arguments, and the empty
\* tuple a policy file can hold.
Tuples     == {<<"go">> \o a : a \in SeqsUpTo(ArgTokens, MaxTupleArgs)} \cup {<<>>}
Allowlists == SeqsUpTo(Tuples, MaxAllow) \cup {DefaultAllowlist, TestAllowlist}
Invocations ==
    {<<p, a>> : p \in Programs, a \in ArgVectors}
        \cup {<<"echo", <<"hello">> >>, <<"rm", <<"-rf", "/">> >>,
              <<"go", <<"test", "-cover">> >>, <<"go", <<"-cover", "test">> >>,
              <<"GO", <<"build">> >>, <<"go", <<"Build">> >>,
              <<"semgrep", <<"--config", "auto", "--json", ".">> >>}
RunnerTimeouts == {5}

NoCall  == [op |-> None, path |-> <<>>, diff |-> <<>>, done |-> FALSE]
NoPatch == [Applied |-> FALSE, Files |-> <<>>, Error |-> <<>>]
NoRun == [Error |-> None, ExitCode |-> 0]
NoLogCall == [args |-> <<>>, err |-> Nil, done |-> FALSE]
NoSarifCall ==
    [results |-> <<>>, doc |-> [version |-> "", runsNil |-> TRUE, runs |-> <<>>],
     done |-> FALSE]
NoScanCall ==
    [opts |-> [Security |-> FALSE, DeadCode |-> FALSE],
     env |-> [semgrepOnPath |-> FALSE, codeqlOnPath |-> FALSE, semgrepProc |-> None,
              parseOk |-> FALSE, findings |-> <<>>, covProc |-> None, walkOk |-> FALSE,
              symbols |-> <<>>, logWrites |-> <<>>],
     done |-> FALSE]

IdleEngine ==
    /\ redact = FALSE
    /\ auditLog = <<>>
    /\ logCall = NoLogCall
    /\ loadRec = None
    /\ sarifCall = NoSarifCall
    /\ scanRec = None
    /\ scanCall = NoScanCall
    /\ applyResult = None
    /\ prResult = None
    /\ pc = "idle"

IdlePatcher ==
    /\ patcher = None
    /\ cwd = None
    /\ patchCall = NoCall
    /\ patchResult = NoPatch

\* NewRunner
InitRunner ==
    /\ Allow \in Allowlists
    /\ Timeout \in RunnerTimeouts
    /\ trace = <<>>
    /\ runResult = NoRun
    /\ IdleEngine
    /\ IdlePatcher

\* Runner.Run
Run(cmd, args) ==
    \E outcome \in ProcOutcomes(Timeout) :
        \E r \in {RunOp(Allow, Timeout, cmd, args, outcome)} :
            /\ trace' = r.events
            /\ runResult' = r.result
            /\ UNCHANGED <<runnerVars, engineVars, patcherVars>>

NextRunner == \E inv \in Invocations : Run(inv[1], inv[2])

SpecRunner == InitRunner /\ [][NextRunner]_vars

(***************************************************************************)
(* SpecWrappers: a Runner built by NewRunner on which one of the wrappers  *)
(* Build, Test and Coverage is called.                                     *)
(***************************************************************************)
CallEv(wrapper, arg) == [kind |-> "call", cmd |-> wrapper, args |-> <<arg>>, ok |-> TRUE]

\* The tuples a policy can list for the wrappers, and the shorter "go build".
WrapperTuples ==
    {<<"go", "build", "./...">>, <<"go", "build">>, <<"cargo", "build">>,
     <<"go", "build", "./cmd/...">>,
     <<"go", "test", "-cover", "./...">>, <<"go", "test", "-run", "TestRun", "-cover", "./...">>,
     <<"go">> \o CoverageArgs}
WrapperAllowlists == SeqsUpTo(WrapperTuples, MaxAllow) \cup {DefaultAllowlist, TestAllowlist}
BuildTargets == {"", "./cmd/..."}
TestPatterns == {"", "TestRun"}

InitWrappers ==
    /\ Allow \in WrapperAllowlists
    /\ Timeout \in RunnerTimeouts
    /\ trace = <<>>
    /\ runResult = NoRun
    /\ IdleEngine
    /\ IdlePatcher

\* Runner.Build
BuildCall ==
    \E target \in BuildTargets, goOnPath \in BOOLEAN, cargoOnPath \in BOOLEAN,
       outcome \in ProcOutcomes(Timeout) :
        \E r \in {Build(Allow, Timeout, target, goOnPath, cargoOnPath, outcome)} :
            /\ trace' = <<CallEv("Build", target)>> \o r.events
            /\ runResult' = r.result
            /\ UNCHANGED <<runnerVars, engineVars, patcherVars>>

\* Runner.Test
TestCall ==
    \E pattern \in TestPatterns, outcome \in ProcOutcomes(Timeout) :
        \E r \in {Test(Allow, Timeout, pattern, outcome)} :
            /\ trace' = <<CallEv("Test", pattern)>> \o r.events
            /\ runResult' = r.result
            /\ UNCHANGED <<runnerVars, engineVars, patcherVars>>

\* Runner.Coverage
CoverageCall ==
    \E outcome \in ProcOutcomes(Timeout) :
        \E r \in {Coverage(Allow, Timeout, outcome)} :
            /\ trace' = <<CallEv("Coverage", "")>> \o r.events
            /\ runResult' = r.result
            /\ UNCHANGED <<runnerVars, engineVars, patcherVars>>

NextWrappers == BuildCall \/ TestCall \/ CoverageCall

SpecWrappers == InitWrappers /\ [][NextWrappers]_vars

(***************************************************************************)
(* SpecRunSteps: one call of Run, lines 34-65, taken apart into what       *)
(* happens between exec.CommandContext and the return of CombinedOutput.   *)
(***************************************************************************)
CtxEv(cause)   == [kind |-> "ctxDone", cmd |-> cause, args |-> <<>>, ok |-> TRUE]
KillEv         == [kind |-> "kill", cmd |-> "", args |-> <<>>, ok |-> TRUE]
ExitEv(status) == [kind |-> "exit", cmd |-> status, args |-> <<>>, ok |-> status = "0"]

HasEvent(kind) == \E i \in 1..Len(trace) : trace[i].kind = kind
EventOf(kind)  == trace[CHOOSE i \in 1..Len(trace) : trace[i].kind = kind]

\* ctx.Err() of the context Run derived: the deadline of WithTimeout or the
\* cancellation of the caller's context.
CtxErr(cause) == IF cause = "deadline" THEN ErrDeadline ELSE ErrCanceled

\* Run up to the return of Cmd.Start: the denial, a start failure, or a
\* running process.
RunBegin(cmd, args) ==
    /\ pc = "idle"
    /\ trace = <<>>
    /\ IF ~allowed(Allow, cmd, args)
       THEN /\ trace' = <<CheckEv(cmd, args, FALSE)>>
            /\ runResult' = [Error |-> ErrNotAllowlisted, ExitCode |-> 0]
            /\ pc' = "returned"
       ELSE \E starts \in BOOLEAN :
               IF starts /\ Timeout > 0
               THEN /\ trace' = <<CheckEv(cmd, args, TRUE), StartEv(cmd, args)>>
                    /\ runResult' = runResult
                    /\ pc' = "running"
               ELSE /\ trace' = <<CheckEv(cmd, args, TRUE)>>
                    /\ runResult' = [Error |-> IF Timeout > 0 THEN ErrStart ELSE ErrDeadline,
                                     ExitCode |-> 0]
                    /\ pc' = "returned"
    /\ UNCHANGED <<runnerVars, redact, auditLog, logCall, loadRec, sarifCall, scanRec,
                   scanCall, applyResult, prResult, patcherVars>>

\* The process ends by itself, before any kill reaches it.
ProcExits ==
    /\ pc \in {"running", "ctxDone"}
    /\ \E status \in {"0", "1"} : trace' = Append(trace, ExitEv(status))
    /\ pc' = "exited"
    /\ UNCHANGED <<runnerVars, runResult, redact, auditLog, logCall, loadRec, sarifCall,
                   scanRec, scanCall, applyResult, prResult, patcherVars>>

\* The derived context ends while the process runs: the timeout of line 46
\* expires or the caller cancels ctx.
CtxDone ==
    /\ pc = "running"
    /\ \E cause \in {"deadline", "canceled"} : trace' = Append(trace, CtxEv(cause))
    /\ pc' = "ctxDone"
    /\ UNCHANGED <<runnerVars, runResult, redact, auditLog, logCall, loadRec, sarifCall,
                   scanRec, scanCall, applyResult, prResult, patcherVars>>

\* os/exec, watching the context of CommandContext, kills the process.
Kill ==
    /\ pc = "ctxDone"
    /\ trace' = trace \o <<KillEv, ExitEv("killed")>>
    /\ pc' = "exited"
    /\ UNCHANGED <<runnerVars, runResult, redact, auditLog, logCall, loadRec, sarifCall,
                   scanRec, scanCall, applyResult, prResult, patcherVars>>

\* What Cmd.Wait reports for a process that ended with the status, after the
\* context ended for the cause (None when it did not end).  A killed process
\* and one that exits non-zero give an *exec.ExitError; the context's error
\* is reported only for a process that exited with 0 after the context had
\* ended, and then only if the kill was still sent.
WaitErrors(status, cause) ==
    CASE status = "killed" -> {ErrKilled}
      [] status = "1"      -> {ErrExit}
      [] OTHER             -> IF cause = None THEN {Nil} ELSE {Nil, CtxErr(cause)}

WaitExitCode(status) ==
    CASE status = "killed" -> -1
      [] status = "1"      -> 1
      [] OTHER             -> 0

\* CombinedOutput returns and Run builds its RunResult, lines 51-64.
WaitReturns ==
    /\ pc = "exited"
    /\ \E err \in WaitErrors(EventOf("exit").cmd,
                             IF HasEvent("ctxDone") THEN EventOf("ctxDone").cmd ELSE None) :
          runResult' = [Error |-> err, ExitCode |-> WaitExitCode(EventOf("exit").cmd)]
    /\ pc' = "returned"
    /\ UNCHANGED <<runnerVars, trace, redact, auditLog, logCall, loadRec, sarifCall,
                   scanRec, scanCall, applyResult, prResult, patcherVars>>

NextRunSteps ==
    \/ \E inv \in Invocations : RunBegin(inv[1], inv[2])
    \/ ProcExits
    \/ CtxDone
    \/ Kill
    \/ WaitReturns

\* The goroutine that watches the context and the Wait of CombinedOutput are
\* scheduled by the Go runtime; a process is not required to end by itself.
SpecRunSteps ==
    /\ InitRunner
    /\ [][NextRunSteps]_vars
    /\ WF_vars(Kill)
    /\ WF_vars(WaitReturns)

(***************************************************************************)
(* Claims about the Runner (SpecRunner).                                   *)
(***************************************************************************)

\* The allowlist check Run made, and the invocation it was made for.
LastCheck == trace[1]
RunCalled == trace # <<>> /\ trace[1].kind = "check"

\* Tuple t is exactly the invocation (cmd, args).
TupleIs(t, cmd, args) ==
    /\ Len(t) = Len(args) + 1
    /\ t[1] = cmd
    /\ \A i \in 1..Len(args) : t[i + 1] = args[i]

InAllowlist(cmd, args) == \E k \in 1..Len(Allow) : TupleIs(Allow[k], cmd, args)

\* C1: Run starts no process for an invocation the matcher rejects: a denied
\* Run returns the "not allowlisted" error and starts nothing, and every
\* process start is immediately preceded, in the same call, by an allowlist
\* check that returned true for that same program and argument vector, which
\* some allowlist tuple spells out exactly.
C1_NoStartWithoutAllow ==
    /\ \A i \in 1..Len(trace) :
          trace[i].kind = "start" =>
              /\ i > 1
              /\ trace[i - 1].kind = "check"
              /\ trace[i - 1].ok
              /\ trace[i - 1].cmd = trace[i].cmd
              /\ trace[i - 1].args = trace[i].args
              /\ InAllowlist(trace[i].cmd, trace[i].args)
    /\ (RunCalled /\ ~InAllowlist(LastCheck.cmd, LastCheck.args)) =>
          /\ runResult.Error = ErrNotAllowlisted
          /\ \A i \in 1..Len(trace) : trace[i].kind # "start"

\* A Run that was denied although the allowlist is not empty.
C1_Witness ==
    /\ RunCalled
    /\ Allow # <<>>
    /\ ~LastCheck.ok
    /\ runResult.Error = ErrNotAllowlisted
    /\ Len(trace) = 1

\* C2: the matcher answers true exactly when some allowlist tuple has the
\* program first and then the arguments, same count, same order, same
\* spelling; an empty allowlist denies everything.
C2_MatcherExact ==
    RunCalled =>
        /\ LastCheck.ok = InAllowlist(LastCheck.cmd, LastCheck.args)
        /\ (Allow = <<>> => ~LastCheck.ok)

\* An invocation allowed by the second tuple of an allowlist.
C2_Witness ==
    /\ RunCalled
    /\ LastCheck.ok
    /\ Len(Allow) >= 2
    /\ ~TupleIs(Allow[1], LastCheck.cmd, LastCheck.args)
    /\ Len(LastCheck.args) >= 1

Front(s) == SubSeq(s, 1, Len(s) - 1)

\* The most recent Run was for an allowed invocation followed by one more
\* argument.
ExtendsAllowed ==
    /\ RunCalled
    /\ Len(LastCheck.args) >= 1
    /\ allowed(Allow, LastCheck.cmd, Front(LastCheck.args))

\* C3 as stated: appending any argument to an allowed invocation always
\* yields a denied invocation, whatever the allowlist.
C3_AppendAlwaysDenied == ExtendsAllowed => ~LastCheck.ok

\* C3 amended: appending an argument to an allowed invocation yields a denied
\* invocation unless the allowlist also holds the longer invocation as a tuple
\* of its own.
C3_AppendDeniedUnlessListed ==
    (ExtendsAllowed /\ ~InAllowlist(LastCheck.cmd, LastCheck.args)) => ~LastCheck.ok

\* go build is allowed, go build --unsafe was asked for and denied.
C3_Witness ==
    /\ ExtendsAllowed
    /\ ~InAllowlist(LastCheck.cmd, LastCheck.args)
    /\ ~LastCheck.ok
    /\ runResult.Error = ErrNotAllowlisted

(***************************************************************************)
(* Paths as sequences of characters; path/filepath on a Unix system.       *)
(***************************************************************************)
Sl == "/"

\* strings.HasPrefix
HasPrefix(s, prefix) ==
    /\ Len(prefix) <= Len(s)
    /\ SubSeq(s, 1, Len(prefix)) = prefix

\* The elements of a path between separators, empty ones included.
RECURSIVE SplitFrom(_, _, _)
SplitFrom(path, i, cur) ==
    IF i > Len(path) THEN <<cur>>
    ELSE IF path[i] = Sl THEN <<cur>> \o SplitFrom(path, i + 1, <<>>)
    ELSE SplitFrom(path, i + 1, Append(cur, path[i]))

Split(path) == SplitFrom(path, 1, <<>>)

RECURSIVE JoinSegs(_)
JoinSegs(segs) ==
    IF segs = <<>> THEN <<>>
    ELSE IF Len(segs) = 1 THEN segs[1]
    ELSE segs[1] \o <<Sl>> \o JoinSegs(Tail(segs))

Dot    == <<".">>
DotDot == <<".", ".">>

\* filepath.Clean's pass over the elements: "" and "." are dropped, ".."
\* removes the element before it, is kept at the front of a relative path and
\* dropped at the root.
RECURSIVE CleanSegs(_, _, _)
CleanSegs(segs, rooted, out) ==
    IF segs = <<>> THEN out
    ELSE LET seg == Head(segs)
             rest == Tail(segs)
         IN  IF seg = <<>> \/ seg = Dot THEN CleanSegs(rest, rooted, out)
             ELSE IF seg = DotDot
                  THEN IF out # <<>> /\ out[Len(out)] # DotDot
                       THEN CleanSegs(rest, rooted, Front(out))
                       ELSE IF rooted THEN CleanSegs(rest, rooted, out)
                       ELSE CleanSegs(rest, rooted, Append(out, seg))
             ELSE CleanSegs(rest, rooted, Append(out, seg))

IsAbs(path) == path # <<>> /\ path[1] = Sl

\* filepath.Clean
Clean(path) ==
    IF path = <<>> THEN Dot
    ELSE LET out == CleanSegs(Split(path), IsAbs(path), <<>>)
         IN  IF IsAbs(path) THEN <<Sl>> \o JoinSegs(out)
             ELSE IF out = <<>> THEN Dot
             ELSE JoinSegs(out)

\* filepath.Abs with working directory wd: Join(wd, path) for a relative path.
Abs(wd, path) ==
    IF IsAbs(path) THEN Clean(path)
    ELSE IF path = <<>> THEN Clean(wd)
    ELSE Clean(wd \o <<Sl>> \o path)

\* filepath.Match for patterns of literal characters, '*' and '?': '*' stands
\* for any run of non-separator characters, '?' for one of them.
RECURSIVE Match(_, _)
Match(pattern, name) ==
    IF pattern = <<>> THEN name = <<>>
    ELSE IF Head(pattern) = "*"
         THEN \/ Match(Tail(pattern), name)
              \/ /\ name # <<>>
                 /\ Head(name) # Sl
                 /\ Match(pattern, Tail(name))
    ELSE IF Head(pattern) = "?"
         THEN name # <<>> /\ Head(name) # Sl /\ Match(Tail(pattern), Tail(name))
    ELSE name # <<>> /\ Head(name) = Head(pattern) /\ Match(Tail(pattern), Tail(name))

(***************************************************************************)
(* internal/tools/patcher.go                                               *)
(***************************************************************************)

\* Patcher.isPathAllowed with the deny-path test made on the path as given.
isPathAllowedUncleaned(p, wd, path) ==
    LET cleanPath == Clean(path)
    IN  IF \E k \in 1..Len(p.DenyPaths) : HasPrefix(path, p.DenyPaths[k])
        THEN FALSE
        ELSE IF \E k \in 1..Len(p.DenyGlobs) : Match(p.DenyGlobs[k], cleanPath)
        THEN FALSE
        ELSE HasPrefix(Abs(wd, cleanPath), Abs(wd, p.Workspace))

\* Patcher.isPathAllowed
isPathAllowed(p, wd, path) ==
    LET cleanPath == Clean(path)
    IN  IF \E k \in 1..Len(p.DenyPaths) : HasPrefix(cleanPath, p.DenyPaths[k])
        THEN FALSE
        ELSE IF \E k \in 1..Len(p.DenyGlobs) : Match(p.DenyGlobs[k], cleanPath)
        THEN FALSE
        ELSE HasPrefix(Abs(wd, cleanPath), Abs(wd, p.Workspace))

ErrParse == "diff parsing not implemented"
ErrApply == "patch application not implemented"

\* parseUnifiedDiff: no patch and an error, whatever the diff.
parseUnifiedDiff(diff) == [patches |-> <<>>, err |-> ErrParse]

\* Patcher.applySinglePatch: writes nothing and returns an error.
applySinglePatch(file) == ErrApply

GuardEv(file, ok) == [kind |-> "guard", cmd |-> file, args |-> <<>>, ok |-> ok]
ApplyEv(file)     == [kind |-> "apply", cmd |-> file, args |-> <<>>, ok |-> TRUE]
Msg(what, file, why) == [what |-> what, file |-> file, why |-> why]

\* The loop of Patcher.ApplyPatch, lines 48-62, from patch i on: the files
\* applied, the error messages and the events so far.
RECURSIVE ApplyLoop(_, _, _, _, _, _, _)
ApplyLoop(p, wd, patches, i, files, errs, events) ==
    IF i > Len(patches) THEN [files |-> files, errs |-> errs, events |-> events]
    ELSE LET file == patches[i]
         IN  IF ~isPathAllowed(p, wd, file)
             THEN ApplyLoop(p, wd, patches, i + 1, files,
                            Append(errs, Msg("path not allowed", file, "")),
                            Append(events, GuardEv(file, FALSE)))
             ELSE IF applySinglePatch(file) # Nil
             THEN ApplyLoop(p, wd, patches, i + 1, files,
                            Append(errs, Msg("failed to apply patch", file,
                                             applySinglePatch(file))),
                            events \o <<GuardEv(file, TRUE), ApplyEv(file)>>)
             ELSE ApplyLoop(p, wd, patches, i + 1, Append(files, file), errs,
                            events \o <<GuardEv(file, TRUE), ApplyEv(file)>>)

\* Patcher.ApplyPatch: the ApplyResult and the events of the call.  A diff is
\* given by the files it targets, in order.
ApplyPatchOp(p, wd, diff) ==
    LET parsed == parseUnifiedDiff(diff)
    IN  IF parsed.err # Nil
        THEN [result |-> [Applied |-> FALSE, Files |-> <<>>,
                          Error |-> <<Msg("failed to parse diff", <<>>, parsed.err)>>],
              events |-> <<>>]
        ELSE LET l == ApplyLoop(p, wd, parsed.patches, 1, <<>>, <<>>, <<>>)
             IN  [result |-> [Applied |-> l.errs = <<>>, Files |-> l.files,
                              Error |-> l.errs],
                  events |-> l.events]

(***************************************************************************)
(* SpecPatcher: a Patcher built by NewPatcher, one call of its guard or of *)
(* ApplyPatch on an argument drawn when the behaviour starts.              *)
(***************************************************************************)
nGit == <<".", "g", "i", "t">>
nSentinel == <<".", "s", "e", "n", "t", "i", "n", "e", "l">>
nWs == <<"w", "s">>
nWsOther == <<"w", "s", "-", "o", "t", "h", "e", "r">>
nF == <<"f">>

\* DefaultPolicy's Security section (policy, lines 114-117).
DefaultDenyPaths ==
    << <<"/", ".", "s", "e", "n", "t", "i", "n", "e", "l">>,
       <<"/", "A", "G", "E", "N", "T", ".", "m", "d">>,
       <<"/", ".", "g", "i", "t">>,
       <<"/", "e", "t", "c">>,
       <<"/", "u", "s", "r">> >>
DefaultDenyGlobs ==
    << <<"*", "*", "/", ".", "s", "e", "n", "t", "i", "n", "e", "l", "/", "*", "*">>,
       <<"*", "*", "/", ".", "g", "i", "t", "/", "*", "*">> >>

WsRoot == <<"/", "w", "s">>

Names == {nGit, nSentinel, nWs, nWsOther, nF, DotDot}
RelPaths == {JoinSegs(segs) : segs \in SeqsUpTo(Names, MaxDepth) \ {<<>>}}
Paths ==
    RelPaths \cup {<<Sl>> \o r : r \in RelPaths}
        \cup { <<>>, <<Sl>>, Dot,
               <<".", ".", "/", ".", ".", "/", "e", "t", "c", "/", "p", "a", "s", "s", "w", "d">>,
               <<"/", "e", "t", "c", "/", "p", "a", "s", "s", "w", "d">>,
               <<".", "/", "f">>,
               <<"/", "w", "s", "/", "/", "f">>,
               <<"/", "w", "s", "/", "x", "/", ".", "g", "i", "t", "/", "c", "o", "n", "f", "i", "g">> }

\* The files a diff can target.
PatchTargets ==
    { <<"f">>, <<".", "g", "i", "t", "/", "f">>, <<".", ".", "/", "f">>, <<"/", "w", "s", "/", "f">> }
Diffs == SeqsUpTo(PatchTargets, MaxPatches)

DenyPathLists == {<<>>, DefaultDenyPaths, <<nGit>>}
DenyGlobLists == {<<>>, DefaultDenyGlobs}
WorkDirs      == {WsRoot, <<Sl>>}

\* NewPatcher
Patchers ==
    {[Workspace |-> WsRoot, DenyPaths |-> dp, DenyGlobs |-> dg] :
        dp \in DenyPathLists, dg \in DenyGlobLists}

PathArg(path) == [op |-> "isPathAllowed", path |-> path, diff |-> <<>>, done |-> FALSE]
DiffArg(diff) == [op |-> "ApplyPatch", path |-> <<>>, diff |-> diff, done |-> FALSE]

IdleRunner ==
    /\ Allow = <<>>
    /\ Timeout = 0
    /\ runResult = NoRun

InitPatcher ==
    /\ patcher \in Patchers
    /\ cwd \in WorkDirs
    /\ patchCall \in {PathArg(path) : path \in Paths} \cup {DiffArg(diff) : diff \in Diffs}
    /\ patchResult = NoPatch
    /\ trace = <<>>
    /\ IdleRunner
    /\ IdleEngine

\* Patcher.isPathAllowed on the drawn path
IsPathAllowed ==
    /\ patchCall.op = "isPathAllowed"
    /\ ~patchCall.done
    /\ patchCall' = [patchCall EXCEPT !.done = TRUE]
    /\ trace' = <<GuardEv(patchCall.path, isPathAllowed(patcher, cwd, patchCall.path))>>
    /\ UNCHANGED <<runnerVars, runResult, engineVars, patcher, cwd, patchResult>>

\* Patcher.ApplyPatch on the drawn diff
ApplyPatch ==
    /\ patchCall.op = "ApplyPatch"
    /\ ~patchCall.done
    /\ patchCall' = [patchCall EXCEPT !.done = TRUE]
    /\ \E r \in {ApplyPatchOp(patcher, cwd, patchCall.diff)} :
           /\ patchResult' = r.result
           /\ trace' = r.events
    /\ UNCHANGED <<runnerVars, runResult, engineVars, patcher, cwd>>

NextPatcher == IsPathAllowed \/ ApplyPatch

SpecPatcher == InitPatcher /\ [][NextPatcher]_vars

(***************************************************************************)
(* internal/logging/audit.go.  Arguments are sequences of characters,      *)
(* error texts are strings of which only the length is read.               *)
(***************************************************************************)
UpperCase == <<"A", "B", "C", "D", "E", "F", "G", "H", "I", "J", "K", "L", "M",
               "N", "O", "P", "Q", "R", "S", "T", "U", "V", "W", "X", "Y", "Z">>
LowerCase == <<"a", "b", "c", "d", "e", "f", "g", "h", "i", "j", "k", "l", "m",
               "n", "o", "p", "q", "r", "s", "t", "u", "v", "w", "x", "y", "z">>
Digits    == {"0", "1", "2", "3", "4", "5", "6", "7", "8", "9"}

LowerChar(c) ==
    IF \E i \in 1..Len(UpperCase) : UpperCase[i] = c
    THEN LowerCase[CHOOSE i \in 1..Len(UpperCase) : UpperCase[i] = c]
    ELSE c

\* strings.ToLower and strings.Contains on character sequences
ToLowerChars(s) == [i \in 1..Len(s) |-> LowerChar(s[i])]
Contains(s, sub) ==
    \E i \in 1..(Len(s) - Len(sub) + 1) : SubSeq(s, i, i + Len(sub) - 1) = sub

SensitivePatterns ==
    << <<"k", "e", "y">>,
       <<"t", "o", "k", "e", "n">>,
       <<"s", "e", "c", "r", "e", "t">>,
       <<"p", "a", "s", "s", "w", "o", "r", "d">>,
       <<"a", "u", "t", "h">> >>

\* containsSensitivePattern
containsSensitivePattern(s) ==
    \E k \in 1..Len(SensitivePatterns) : Contains(ToLowerChars(s), SensitivePatterns[k])

\* looksLikeToken
looksLikeToken(s) ==
    IF Len(s) < 20 THEN FALSE
    ELSE /\ \E i \in 1..Len(s) : s[i] \in Range(LowerCase) \cup Range(UpperCase)
         /\ \E i \in 1..Len(s) : s[i] \in Digits

RedactedArg   == <<"[", "R", "E", "D", "A", "C", "T", "E", "D", "]">>
RedactedError == "[REDACTED ERROR]"

\* A plausible slip: the threshold is taken as "20 or more".
maybeRedactArgsAtLeast(red, args) ==
    IF ~red THEN args
    ELSE [i \in 1..Len(args) |->
            IF Len(args[i]) >= 20 /\ (containsSensitivePattern(args[i]) \/ looksLikeToken(args[i]))
            THEN RedactedArg
            ELSE args[i]]

\* A plausible slip: the marker is put in front of the argument, which is kept.
maybeRedactArgsTagged(red, args) ==
    IF ~red THEN args
    ELSE [i \in 1..Len(args) |->
            IF Len(args[i]) > 20 /\ (containsSensitivePattern(args[i]) \/ looksLikeToken(args[i]))
            THEN RedactedArg \o args[i]
            ELSE args[i]]

\* A plausible slip: the threshold is taken as "100 or more".
maybeRedactErrorAtLeast(red, err) ==
    IF ~red THEN err
    ELSE IF Len(err) >= 100 THEN RedactedError
    ELSE err

\* AuditLogger.maybeRedactArgs
maybeRedactArgs(red, args) ==
    IF ~red THEN args
    ELSE [i \in 1..Len(args) |->
            IF Len(args[i]) > 20 /\ (containsSensitivePattern(args[i]) \/ looksLikeToken(args[i]))
            THEN RedactedArg
            ELSE args[i]]

\* AuditLogger.maybeRedactError
maybeRedactError(red, err) ==
    IF ~red THEN err
    ELSE IF Len(err) > 100 THEN RedactedError
    ELSE err

LogEntry(step, event, tool, args, status, err, findings) ==
    [Step |-> step, Event |-> event, Tool |-> tool, Args |-> args,
     Status |-> status, Error |-> err, Findings |-> findings]

\* AuditLogger.LogToolCall: the entry handed to writeEntry
LogToolCall(red, step, tool, args, status, err) ==
    LogEntry(step, "tool.run", tool, maybeRedactArgs(red, args), status,
             IF err # Nil THEN maybeRedactError(red, err) ELSE "", -1)

\* AuditLogger.LogScanResult: the entry handed to writeEntry
LogScanResult(step, findings) ==
    LogEntry(step, "scan.result", "", <<>>, "ok", "", findings)

\* AuditLogger.LogLLMCall: the entry handed to writeEntry.  Of the metadata
\* only the findings count of LogScanResult is kept in an entry.
LogLLMCall(red, step, model, tokens, status, err) ==
    LogEntry(step, "llm.call", model, <<>>, status,
             IF err # Nil THEN maybeRedactError(red, err) ELSE "", -1)

\* AuditLogger.LogPatchApplication: the entry handed to writeEntry
LogPatchApplication(red, step, files, success, err) ==
    LogEntry(step, "patch.apply", "", <<>>, IF err # Nil THEN "error" ELSE "ok",
             IF err # Nil THEN maybeRedactError(red, err) ELSE "", -1)

\* AuditLogger.LogPolicyViolation: the entry handed to writeEntry; the
\* violation text goes into Error as it is.
LogPolicyViolation(red, step, violation) ==
    LogEntry(step, "policy.violation", "", <<>>, "error", violation, -1)

\* AuditLogger.writeEntry: the file after the call.  written is FALSE when
\* json.Marshal fails (the function reports on stderr and returns) or when
\* the Fprintln to the file fails (its error is dropped); the function
\* returns nothing to its caller either way.
writeEntry(file, entry, written) == IF written THEN Append(file, entry) ELSE file

\* The file after the entries were handed to writeEntry, from entry i on;
\* writes[i] is the outcome of the i-th call.
RECURSIVE writeEntries(_, _, _, _)
writeEntries(file, entries, writes, i) ==
    IF i > Len(entries) THEN file
    ELSE writeEntries(writeEntry(file, entries[i], writes[i]), entries, writes, i + 1)

LogEv(entry) == [kind |-> "log", cmd |-> entry.Event, args |-> <<entry.Step, entry.Status>>, ok |-> TRUE]
AdapterEv(name) == [kind |-> "adapter", cmd |-> name, args |-> <<>>, ok |-> TRUE]

(***************************************************************************)
(* SpecLogger: an AuditLogger built by NewAuditLogger, on which            *)
(* LogToolCall is called once with the arguments and the error drawn when  *)
(* the behaviour starts.                                                   *)
(***************************************************************************)
Chars(n, c) == [i \in 1..n |-> c]

RECURSIVE Text(_)
Text(n) == IF n = 0 THEN "" ELSE "e" \o Text(n - 1)

\* What an argument is built around: the sensitive substrings in several
\* spellings, a letter with a digit, letters only, digits only, neither.
ArgCores ==
    { <<"t", "o", "k", "e", "n">>, <<"T", "o", "K", "E", "N">>, <<"k", "e", "y">>,
      <<"S", "e", "c", "r", "e", "t">>, <<"p", "a", "s", "s", "w", "o", "r", "d">>,
      <<"A", "U", "T", "H">>, <<"t", "o", "k", "-", "e", "n">>,
      <<"a", "1">>, <<"Z", "9">>, <<"a", "b">>, <<"1", "2">>, <<"-", "-">>, <<>> }
PadChars == {"-", "x", "7"}
ArgLens  == 19..MaxArgLen

LogArgs ==
    {core \o Chars(n - Len(core), c) : core \in ArgCores, c \in PadChars, n \in ArgLens}
        \cup ArgCores \cup {RedactedArg}

\* A second argument beside the first: one that is redacted, one that is not.
SecondArgs == {<<"t", "o", "k", "e", "n">> \o Chars(16, "-"), <<"-", "v">>}

LogArgVectors ==
    {<<>>} \cup {<<a>> : a \in LogArgs} \cup {<<a, b>> : a \in LogArgs, b \in SecondArgs}

\* err: nil, or an error whose text has one of these lengths.
LogErrors ==
    {Nil} \cup {Text(n) : n \in {0, 1, 99} \cup (100..MaxErrLen)} \cup {RedactedError}

\* NewAuditLogger
InitLogger ==
    /\ redact \in BOOLEAN
    /\ auditLog = <<>>
    /\ logCall \in [args : LogArgVectors, err : LogErrors, done : {FALSE}]
    /\ loadRec = None
    /\ sarifCall = NoSarifCall
    /\ scanRec = None
    /\ scanCall = NoScanCall
    /\ applyResult = None
    /\ prResult = None
    /\ pc = "idle"
    /\ trace = <<>>
    /\ Allow = <<>>
    /\ Timeout = 0
    /\ runResult = NoRun
    /\ patcher = None
    /\ cwd = None
    /\ patchCall = NoCall
    /\ patchResult = NoPatch

\* AuditLogger.LogToolCall on the drawn arguments
WriteToolCall ==
    /\ ~logCall.done
    /\ logCall' = [logCall EXCEPT !.done = TRUE]
    /\ auditLog' = Append(auditLog,
                          LogToolCall(redact, "step", "tool", logCall.args, "ok", logCall.err))
    /\ UNCHANGED <<runnerVars, redact, trace, runResult, loadRec, sarifCall, scanRec,
                   scanCall, applyResult, prResult, pc, patcherVars>>

NextLogger == WriteToolCall

SpecLogger == InitLogger /\ [][NextLogger]_vars

(***************************************************************************)
(* internal/security/scanner.go                                            *)
(***************************************************************************)

\* The severities severityToLevel knows, as sequences of characters.
sevError    == <<"e", "r", "r", "o", "r">>
sevCritical == <<"c", "r", "i", "t", "i", "c", "a", "l">>
sevHigh     == <<"h", "i", "g", "h">>
sevWarning  == <<"w", "a", "r", "n", "i", "n", "g">>
sevMedium   == <<"m", "e", "d", "i", "u", "m">>
sevInfo     == <<"i", "n", "f", "o">>
sevLow      == <<"l", "o", "w">>

\* A plausible slip: the severity is compared as it is written.
severityToLevelExact(severity) ==
    IF severity \in {sevError, sevCritical, sevHigh} THEN "error"
    ELSE IF severity \in {sevWarning, sevMedium} THEN "warning"
    ELSE "note"

\* Scanner.severityToLevel
severityToLevel(severity) ==
    LET sev == ToLowerChars(severity)
    IN  IF sev \in {sevError, sevCritical, sevHigh} THEN "error"
        ELSE IF sev \in {sevWarning, sevMedium} THEN "warning"
        ELSE IF sev \in {sevInfo, sevLow} THEN "note"
        ELSE "note"

AdapterResult(tool, findings, err) == [Tool |-> tool, Findings |-> findings, Error |-> err]

\* A plausible slip: semgrep is run with the arguments of the default
\* policy's tuple only.
SemgrepArgsBare(workspace) == <<"--config", "auto">>

\* The arguments of the semgrep invocation, line 81.
SemgrepArgs(workspace) == <<"--config", "auto", "--json", workspace>>

\* Scanner.runSemgrep: the ScanResult and the events of the call.  env says
\* whether semgrep is on PATH, what its process does, whether its output
\* parses and which severities its results carry.
runSemgrep(allow, timeout, workspace, env) ==
    IF ~env.semgrepOnPath
    THEN [result |-> AdapterResult("semgrep", <<>>, "semgrep not found in PATH"),
          events |-> <<>>]
    ELSE With(RunOp(allow, timeout, "semgrep", SemgrepArgs(workspace), env.semgrepProc),
              LAMBDA r :
                 IF r.result.Error # Nil
                 THEN [result |-> AdapterResult("semgrep", <<>>, r.result.Error),
                       events |-> r.events]
                 ELSE IF ~env.parseOk
                 THEN [result |-> AdapterResult("semgrep", <<>>,
                                                "failed to parse semgrep output"),
                       events |-> r.events]
                 ELSE [result |-> AdapterResult("semgrep",
                            [i \in 1..Len(env.findings) |->
                                [Severity |-> ToLowerChars(env.findings[i])]], ""),
                       events |-> r.events])

\* Scanner.runCodeQL
runCodeQL(env) ==
    IF ~env.codeqlOnPath
    THEN AdapterResult("codeql", <<>>, "codeql not found in PATH")
    ELSE AdapterResult("codeql", <<>>, "CodeQL integration not fully implemented")

\* Scanner.Scan: both adapters' results, a nil error.
ScannerScan(allow, timeout, workspace, env) ==
    With(runSemgrep(allow, timeout, workspace, env),
         LAMBDA sem :
            [results |-> <<sem.result, runCodeQL(env)>>, err |-> Nil, events |-> sem.events])

\* The runs of GenerateSARIF, lines 185-233: one per result with no error.
RECURSIVE sarifRuns(_)
sarifRuns(results) ==
    IF results = <<>> THEN <<>>
    ELSE LET r == Head(results)
         IN  IF r.Error # "" THEN sarifRuns(Tail(results))
             ELSE <<[tool |-> r.Tool,
                     resultsNil |-> r.Findings = <<>>,
                     results |-> [i \in 1..Len(r.Findings) |->
                                    [level |-> severityToLevel(r.Findings[i].Severity)]]]>>
                  \o sarifRuns(Tail(results))

\* A plausible slip: the results with an error are not skipped.
GenerateSARIFUnskipped(results) ==
    With([i \in 1..Len(results) |->
            [tool |-> results[i].Tool,
             resultsNil |-> results[i].Findings = <<>>,
             results |-> [k \in 1..Len(results[i].Findings) |->
                            [level |-> severityToLevel(results[i].Findings[k].Severity)]]]],
         LAMBDA runs :
            [doc |-> [version |-> "2.1.0", runsNil |-> runs = <<>>, runs |-> runs],
             err |-> Nil])

\* Scanner.GenerateSARIF.  runsNil: the slice that is marshalled was never
\* appended to, which json.Marshal writes as null.
GenerateSARIF(results) ==
    With(sarifRuns(results),
         LAMBDA runs :
            [doc |-> [version |-> "2.1.0", runsNil |-> runs = <<>>, runs |-> runs],
             err |-> Nil])

(***************************************************************************)
(* SpecSarif: GenerateSARIF called once on the list of adapter results     *)
(* drawn when the behaviour starts.                                        *)
(***************************************************************************)
\* Severity strings: the known ones in lower case and in other spellings,
\* the empty string and unknown ones.
SarifSeverities ==
    { sevError, sevCritical, sevHigh, sevWarning, sevMedium, sevInfo, sevLow,
      <<"E", "R", "R", "O", "R">>, <<"C", "r", "i", "t", "i", "c", "a", "l">>,
      <<"H", "I", "G", "H">>, <<"W", "A", "R", "N", "I", "N", "G">>,
      <<"M", "e", "d", "i", "u", "m">>, <<"I", "N", "F", "O">>, <<"L", "o", "w">>,
      <<>>, <<"b", "o", "g", "u", "s">>, <<"h", "i", "g", "h", "e", "r">>,
      <<"n", "o", "t", "e">> }

FindingsOf(sevs) == [i \in 1..Len(sevs) |-> [Severity |-> sevs[i]]]

\* Results with one finding of any severity, and a few results that are
\* combined into longer lists: with findings, empty, failed.
SingleResults ==
    {AdapterResult("semgrep", FindingsOf(<<sev>>), "") : sev \in SarifSeverities}
ListedResults ==
    {AdapterResult("semgrep", FindingsOf(sevs), "") :
        sevs \in SeqsUpTo({sevHigh, sevLow}, MaxFindings)}
    \cup {AdapterResult("semgrep", <<>>, "semgrep not found in PATH"),
          AdapterResult("codeql", <<>>, "CodeQL integration not fully implemented"),
          AdapterResult("codeql", FindingsOf(<<sevMedium>>), "")}

ResultLists == {<<r>> : r \in SingleResults} \cup SeqsUpTo(ListedResults, MaxResults)

InitSarif ==
    /\ sarifCall \in [results : ResultLists, doc : {NoSarifCall.doc}, done : {FALSE}]
    /\ redact = FALSE
    /\ auditLog = <<>>
    /\ logCall = NoLogCall
    /\ loadRec = None
    /\ scanRec = None
    /\ scanCall = NoScanCall
    /\ applyResult = None
    /\ prResult = None
    /\ pc = "idle"
    /\ trace = <<>>
    /\ Allow = <<>>
    /\ Timeout = 0
    /\ runResult = NoRun
    /\ patcher = None
    /\ cwd = None
    /\ patchCall = NoCall
    /\ patchResult = NoPatch

\* Scanner.GenerateSARIF on the drawn results
WriteSarif ==
    /\ ~sarifCall.done
    /\ \E r \in {GenerateSARIF(sarifCall.results)} :
          sarifCall' = [sarifCall EXCEPT !.doc = r.doc, !.done = TRUE]
    /\ UNCHANGED <<runnerVars, redact, trace, runResult, auditLog, logCall, loadRec,
                   scanRec, scanCall, applyResult, prResult, pc, patcherVars>>

NextSarif == WriteSarif

SpecSarif == InitSarif /\ [][NextSarif]_vars

(***************************************************************************)
(* internal/deadcode/detector.go                                           *)
(***************************************************************************)

\* Detector.filterDeadSymbols: the unexported symbols with no reference.
RECURSIVE filterDeadSymbols(_)
filterDeadSymbols(symbols) ==
    IF symbols = <<>> THEN <<>>
    ELSE LET sym == Head(symbols)
         IN  IF ~sym.Exported /\ sym.References = 0
             THEN <<sym>> \o filterDeadSymbols(Tail(symbols))
             ELSE filterDeadSymbols(Tail(symbols))

\* Detector.Detect: the DeadCodeResult, a nil error and the events of the
\* call.  env says what the coverage process does, whether the walk of the
\* workspace succeeds and which symbols the analysis of the files collects.
Detect(allow, timeout, env) ==
    With(Coverage(allow, timeout, env.covProc),
         LAMBDA cov :
            IF ~env.walkOk
            THEN [result |-> [Symbols |-> <<>>, Error |-> "failed to find Go files"],
                  err |-> Nil, events |-> cov.events]
            ELSE [result |-> [Symbols |-> filterDeadSymbols(env.symbols), Error |-> ""],
                  err |-> Nil, events |-> cov.events])

(***************************************************************************)
(* internal/engine/engine.go                                               *)
(***************************************************************************)
ExitSecurity == 10
ExitDeadCode == 11

RECURSIVE countFindings(_)
countFindings(results) ==
    IF results = <<>> THEN 0
    ELSE Len(Head(results).Findings) + countFindings(Tail(results))

BasicPlan ==
    [Steps |-> <<[Name |-> "analysis", BudgetTokens |-> 1000,
                  Tools |-> <<"scanner", "detector">>]>>,
     TotalTokens |-> 1000]
NoPlan == [Steps |-> <<>>, TotalTokens |-> 0]

EmptySARIF == [version |-> "2.1.0", runsNil |-> FALSE, runs |-> <<>>]
NoSARIF    == [version |-> "", runsNil |-> TRUE, runs |-> <<>>]

ArgSecurity == <<"s", "e", "c", "u", "r", "i", "t", "y">>
ArgScan     == <<"s", "c", "a", "n">>
ArgSarif    == <<"s", "a", "r", "i", "f">>
ArgGenerate == <<"g", "e", "n", "e", "r", "a", "t", "e">>
ArgDeadcode == <<"d", "e", "a", "d", "c", "o", "d", "e">>
ArgDetect   == <<"d", "e", "t", "e", "c", "t">>

\* What Scan hands on from its security part to its dead-code part.
ScanState(log, events, sarif, sarifSet, exitCode, summary, results, err) ==
    [log |-> log, events |-> events, sarif |-> sarif, sarifSet |-> sarifSet,
     exitCode |-> exitCode, summary |-> summary, results |-> results,
     symbols |-> <<>>, err |-> err]

\* The entries Scan logs before each adapter runs.
StartedSecurity(red) ==
    LogToolCall(red, "security", "scanner", <<ArgSecurity, ArgScan>>, "started", Nil)
StartedDeadCode(red) ==
    LogToolCall(red, "deadcode", "detector", <<ArgDeadcode, ArgDetect>>, "started", Nil)

\* Engine.Scan, lines 134-152: after Scanner.Scan returned sc without error.
ScanSecurityOk(red, started, ev1, sc) ==
    With(GenerateSARIF(sc.results),
         LAMBDA gen :
            IF gen.err # Nil
            THEN With(LogToolCall(red, "security", "scanner", <<ArgSarif, ArgGenerate>>,
                                  "error", gen.err),
                      LAMBDA e :
                         ScanState(<<started, e>>, Append(ev1, LogEv(e)), NoSARIF, FALSE,
                                   0, <<>>, sc.results, gen.err))
            ELSE With(countFindings(sc.results),
                      LAMBDA total :
                         With(LogScanResult("security", total),
                              LAMBDA res :
                                 ScanState(<<started, res>>, Append(ev1, LogEv(res)),
                                           gen.doc, TRUE,
                                           IF total > 0 THEN ExitSecurity ELSE 0,
                                           IF total > 0
                                           THEN <<"Found security findings", total>>
                                           ELSE <<"Scan completed successfully">>,
                                           sc.results, Nil))))

\* A plausible slip: the "started" record is written when the scanner has
\* returned.
ScanSecurityLateStart(allow, timeout, red, workspace, env) ==
    With(StartedSecurity(red),
         LAMBDA started :
            With(ScannerScan(allow, timeout, workspace, env),
                 LAMBDA sc :
                    With(<<AdapterEv("scanner")>> \o sc.events \o <<LogEv(started)>>,
                         LAMBDA ev1 : ScanSecurityOk(red, started, ev1, sc))))

\* Engine.Scan, lines 125-153: the security part.
ScanSecurity(allow, timeout, red, workspace, env) ==
    With(StartedSecurity(red),
         LAMBDA started :
            With(ScannerScan(allow, timeout, workspace, env),
                 LAMBDA sc :
                    With(<<LogEv(started), AdapterEv("scanner")>> \o sc.events,
                         LAMBDA ev1 :
                            IF sc.err # Nil
                            THEN With(LogToolCall(red, "security", "scanner",
                                                  <<ArgSecurity, ArgScan>>, "error", sc.err),
                                      LAMBDA e :
                                         ScanState(<<started, e>>, Append(ev1, LogEv(e)),
                                                   NoSARIF, FALSE, 0, <<>>, <<>>, sc.err))
                            ELSE ScanSecurityOk(red, started, ev1, sc))))

\* A plausible slip: dead code sets its exit code whatever the security part
\* had set.
ScanDeadCodeOverride(started, ev1, d, st) ==
    With(Len(d.result.Symbols),
         LAMBDA n :
            With(LogScanResult("deadcode", n),
                 LAMBDA res :
                    [st EXCEPT !.log = st.log \o <<started, res>>,
                               !.events = Append(ev1, LogEv(res)),
                               !.symbols = d.result.Symbols,
                               !.exitCode = IF n > 0 THEN ExitDeadCode ELSE st.exitCode,
                               !.summary = st.summary]))

\* Engine.Scan, lines 165-172: after Detect returned d without error.
ScanDeadCodeOk(started, ev1, d, st) ==
    With(Len(d.result.Symbols),
         LAMBDA n :
            With(LogScanResult("deadcode", n),
                 LAMBDA res :
                    [st EXCEPT !.log = st.log \o <<started, res>>,
                               !.events = Append(ev1, LogEv(res)),
                               !.symbols = d.result.Symbols,
                               !.exitCode = IF n > 0 /\ st.exitCode = 0 THEN ExitDeadCode
                                            ELSE st.exitCode,
                               !.summary = IF n > 0
                                           THEN st.summary \o <<"Found dead code symbols", n>>
                                           ELSE st.summary]))

\* Engine.Scan, lines 155-173: the dead-code part, after state st.
ScanDeadCode(allow, timeout, red, env, st) ==
    With(StartedDeadCode(red),
         LAMBDA started :
            With(Detect(allow, timeout, env),
                 LAMBDA d :
                    With(st.events \o <<LogEv(started), AdapterEv("detector")>> \o d.events,
                         LAMBDA ev1 :
                            IF d.err # Nil
                            THEN With(LogToolCall(red, "deadcode", "detector",
                                                  <<ArgDeadcode, ArgDetect>>, "error", d.err),
                                      LAMBDA e :
                                         [st EXCEPT !.log = st.log \o <<started, e>>,
                                                    !.events = Append(ev1, LogEv(e)),
                                                    !.err = d.err])
                            ELSE ScanDeadCodeOk(started, ev1, d, st))))

\* Engine.Scan, lines 175-202: the plan, the SARIF default and the result.
ScanFinish(st) ==
    IF st.err # Nil
    THEN [log |-> st.log, events |-> st.events, returned |-> FALSE,
          SARIF |-> NoSARIF, Plan |-> NoPlan, ExitCode |-> 0, Summary |-> <<>>,
          results |-> st.results, symbols |-> st.symbols, err |-> st.err]
    ELSE [log |-> st.log, events |-> st.events, returned |-> TRUE,
          SARIF |-> IF st.sarifSet THEN st.sarif ELSE EmptySARIF,
          Plan |-> BasicPlan, ExitCode |-> st.exitCode, Summary |-> st.summary,
          results |-> st.results, symbols |-> st.symbols, err |-> Nil]

ScanStart ==
    ScanState(<<>>, <<>>, NoSARIF, FALSE, 0, <<"Scan completed successfully">>, <<>>, Nil)

\* Engine.Scan: the log entries, the events, the ScanResult and the error.
ScanOp(allow, timeout, red, workspace, opts, env) ==
    With(IF opts.Security THEN ScanSecurity(allow, timeout, red, workspace, env)
         ELSE ScanStart,
         LAMBDA st1 :
            With(IF st1.err # Nil \/ ~opts.DeadCode THEN st1
                 ELSE ScanDeadCode(allow, timeout, red, env, st1),
                 LAMBDA st2 : ScanFinish(st2)))

\* Engine.Apply
ApplyOp(plan, approveLevel) ==
    [Success |-> TRUE, Error |-> "", Files |-> <<>>, err |-> Nil]

\* Engine.CreatePR
CreatePROp(opts) ==
    [URL |-> "https://github.com/example/repo/pull/123", err |-> Nil]

(***************************************************************************)
(* internal/policy: the fields of a Policy that Validate and engine.New    *)
(* read.                                                                   *)
(***************************************************************************)
Workspace == "."        \* the --repo flag's default

Policy(commands, maxRuntimeSec, piiRedaction, maxIterations, maxFiles) ==
    [Commands |-> commands, MaxRuntimeSec |-> maxRuntimeSec,
     PIIRedaction |-> piiRedaction, MaxIterations |-> maxIterations,
     MaxFiles |-> maxFiles]

\* DefaultPolicy
DefaultPolicy == Policy(DefaultAllowlist, 300, TRUE, 4, 4000)

\* Policy{}, what Load returns beside an error
ZeroPolicy == Policy(<<>>, 0, FALSE, 0, 0)

\* A plausible slip in the policy's matcher: a tuple that is a prefix of the
\* invocation is accepted.
IsCommandAllowedPrefix(p, cmd, args) ==
    \E k \in 1..Len(p.Commands) :
        LET tuple == p.Commands[k]
        IN  /\ Len(tuple) >= 1
            /\ Len(tuple) <= Len(args) + 1
            /\ tuple[1] = cmd
            /\ \A i \in 2..Len(tuple) : tuple[i] = args[i - 1]

\* The loop of Policy.IsCommandAllowed, lines 186-199, from tuple k on; the
\* inner loop, lines 189-194, from Go index i on.
RECURSIVE policyArgsMatchFrom(_, _, _)
policyArgsMatchFrom(tuple, args, i) ==
    IF i >= Len(tuple) THEN TRUE
    ELSE IF tuple[i + 1] # args[i] THEN FALSE
    ELSE policyArgsMatchFrom(tuple, args, i + 1)

RECURSIVE IsCommandAllowedFrom(_, _, _, _)
IsCommandAllowedFrom(commands, cmd, args, k) ==
    IF k > Len(commands) THEN FALSE
    ELSE IF /\ Len(commands[k]) = Len(args) + 1
            /\ commands[k][1] = cmd
            /\ policyArgsMatchFrom(commands[k], args, 1)
         THEN TRUE
         ELSE IsCommandAllowedFrom(commands, cmd, args, k + 1)

\* Policy.IsCommandAllowed
IsCommandAllowed(p, cmd, args) == IsCommandAllowedFrom(p.Commands, cmd, args, 1)

ErrNoCommands    == "no allowlisted commands"
ErrMaxIterations == "max_iterations must be positive"
ErrMaxFiles      == "max_files must be positive"
ErrReadFile      == "open: no such file or directory"
ErrUnmarshal     == "yaml: unmarshal errors"

\* A plausible slip: the file limit is not looked at.
ValidateNoFiles(p) ==
    IF Len(p.Commands) = 0 THEN ErrNoCommands
    ELSE IF p.MaxIterations <= 0 THEN ErrMaxIterations
    ELSE Nil

\* Policy.Validate
Validate(p) ==
    IF Len(p.Commands) = 0 THEN ErrNoCommands
    ELSE IF p.MaxIterations <= 0 THEN ErrMaxIterations
    ELSE IF p.MaxFiles <= 0 THEN ErrMaxFiles
    ELSE Nil

\* A plausible slip: the policy read from the file is returned as it is.
LoadUnvalidated(path, read, file) ==
    IF path = "" THEN [policy |-> DefaultPolicy, err |-> Nil]
    ELSE IF read = "unreadable" THEN [policy |-> ZeroPolicy, err |-> ErrReadFile]
    ELSE IF read = "unparsable" THEN [policy |-> ZeroPolicy, err |-> ErrUnmarshal]
    ELSE [policy |-> file, err |-> Nil]

\* Load.  read says what os.ReadFile and yaml.Unmarshal do with the file at
\* path, file is the Policy that Unmarshal fills in.
Load(path, read, file) ==
    IF path = "" THEN [policy |-> DefaultPolicy, err |-> Nil]
    ELSE IF read = "unreadable" THEN [policy |-> ZeroPolicy, err |-> ErrReadFile]
    ELSE IF read = "unparsable" THEN [policy |-> ZeroPolicy, err |-> ErrUnmarshal]
    ELSE IF Validate(file) # Nil THEN [policy |-> ZeroPolicy, err |-> Validate(file)]
    ELSE [policy |-> file, err |-> Nil]

(***************************************************************************)
(* Spec: one CLI process (cmd/scan.go, apply, cmd/pr.go).  The command     *)
(* loads the policy, builds the engine from it with engine.New and makes   *)
(* its one engine call; an error of Load or New ends it.                   *)
(***************************************************************************)
\* Allowlists of policy files: one lists the commands the scan adapters
\* issue, one only the coverage command, one is empty.
ScanAllowlist ==
    << <<"semgrep">> \o SemgrepArgs(Workspace), <<"go">> \o CoverageArgs >>
CoverageAllowlist == << <<"go">> \o CoverageArgs >>

\* What yaml.Unmarshal can fill in; a file without a "default" mode leaves
\* the timeout 0.
PolicyFiles ==
    {Policy(c, t, FALSE, it, f) :
        c \in {<<>>, ScanAllowlist, CoverageAllowlist},
        t \in {0, 300}, it \in {-1, 0, 4}, f \in {-1, 0, 4000}}

PolicyPaths == {"", "./.sentinel/policy.yaml"}
FileReads   == {"unreadable", "unparsable", "parsed"}

\* The policies Load returns without an error.
LoadedPolicies == {DefaultPolicy} \cup {p \in PolicyFiles : Validate(p) = Nil}

NoLoad == [called |-> FALSE, path |-> "", read |-> "", file |-> ZeroPolicy,
           policy |-> ZeroPolicy, err |-> Nil]

NoScan ==
    [called |-> FALSE, opts |-> [Security |-> FALSE, DeadCode |-> FALSE],
     returned |-> FALSE, SARIF |-> NoSARIF, Plan |-> NoPlan, ExitCode |-> 0,
     Summary |-> <<>>, results |-> <<>>, symbols |-> <<>>, err |-> Nil]
NoApply == [called |-> FALSE, Success |-> FALSE, Error |-> "", Files |-> <<>>, err |-> Nil]
NoPR    == [called |-> FALSE, URL |-> "", err |-> Nil]

\* What the audit log file holds when the process starts: NewAuditLogger
\* opens it with O_APPEND.
PriorLogs == {<<>>, <<LogScanResult("security", 0)>>}

\* The command's RunE begins.
Init ==
    /\ IdleRunner
    /\ redact = FALSE
    /\ auditLog \in PriorLogs
    /\ logCall = NoLogCall
    /\ loadRec = NoLoad
    /\ sarifCall = NoSarifCall
    /\ trace = <<>>
    /\ scanRec = NoScan
    /\ scanCall = NoScanCall
    /\ applyResult = NoApply
    /\ prResult = NoPR
    /\ pc = "start"
    /\ IdlePatcher

\* policy.Load(policyPath) and the command's return on its error
LoadPolicy ==
    /\ pc = "start"
    /\ \E path \in PolicyPaths, read \in FileReads, file \in PolicyFiles :
          \E r \in {Load(path, read, file)} :
              /\ loadRec' = [called |-> TRUE, path |-> path,
                             read |-> IF path = "" THEN "" ELSE read,
                             file |-> IF path # "" /\ read = "parsed" THEN file
                                      ELSE ZeroPolicy,
                             policy |-> r.policy, err |-> r.err]
              /\ pc' = IF r.err # Nil THEN "loadFailed" ELSE "loaded"
    /\ UNCHANGED <<runnerVars, redact, trace, runResult, auditLog, logCall, sarifCall,
                   scanRec, scanCall, applyResult, prResult, patcherVars>>

\* engine.New: the Runner from the policy's allowlist and default-mode
\* timeout, then the logger, whose file may fail to open.
New ==
    /\ pc = "loaded"
    /\ Allow' = loadRec.policy.Commands
    /\ Timeout' = loadRec.policy.MaxRuntimeSec
    /\ \E logOpens \in BOOLEAN :
          IF logOpens
          THEN /\ redact' = loadRec.policy.PIIRedaction
               /\ pc' = "ready"
          ELSE /\ redact' = redact
               /\ pc' = "newFailed"
    /\ UNCHANGED <<trace, runResult, auditLog, logCall, loadRec, sarifCall, scanRec,
                   scanCall, applyResult, prResult, patcherVars>>

Severities   == {<<"E", "R", "R", "O", "R">>}
SymbolsFound == {[Exported |-> FALSE, References |-> n] : n \in {0, 1}}

ScanEnvs ==
    [semgrepOnPath : BOOLEAN, codeqlOnPath : BOOLEAN,
     semgrepProc : ProcOutcomes(Timeout), parseOk : BOOLEAN,
     findings : SeqsUpTo(Severities, MaxFindings),
     covProc : ProcOutcomes(Timeout), walkOk : BOOLEAN,
     symbols : SeqsUpTo(SymbolsFound, MaxSymbols)]

\* Engine.Scan
Scan ==
    /\ pc = "ready"
    /\ \E opts \in [Security : BOOLEAN, DeadCode : BOOLEAN], env \in ScanEnvs :
          \E r \in {ScanOp(Allow, Timeout, redact, Workspace, opts, env)} :
              /\ auditLog' = auditLog \o r.log
              /\ trace' = r.events
              /\ scanRec' = [called |-> TRUE, opts |-> opts, returned |-> r.returned,
                             SARIF |-> r.SARIF, Plan |-> r.Plan, ExitCode |-> r.ExitCode,
                             Summary |-> r.Summary, results |-> r.results,
                             symbols |-> r.symbols, err |-> r.err]
    /\ pc' = "done"
    /\ UNCHANGED <<runnerVars, redact, runResult, logCall, loadRec, sarifCall,
                   scanCall, applyResult, prResult, patcherVars>>

\* Engine.Apply
Apply ==
    /\ pc = "ready"
    /\ \E plan \in {BasicPlan, NoPlan}, approveLevel \in {"", "low", "high"} :
          \E r \in {ApplyOp(plan, approveLevel)} :
              applyResult' = [called |-> TRUE, Success |-> r.Success, Error |-> r.Error,
                              Files |-> r.Files, err |-> r.err]
    /\ pc' = "done"
    /\ UNCHANGED <<runnerVars, redact, trace, runResult, auditLog, logCall, loadRec,
                   sarifCall, scanRec, scanCall, prResult, patcherVars>>

\* Engine.CreatePR
CreatePR ==
    /\ pc = "ready"
    /\ \E opts \in [Draft : BOOLEAN, PlanPath : {"", "plan.json"}] :
          \E r \in {CreatePROp(opts)} :
              prResult' = [called |-> TRUE, URL |-> r.URL, err |-> r.err]
    /\ pc' = "done"
    /\ UNCHANGED <<runnerVars, redact, trace, runResult, auditLog, logCall, loadRec,
                   sarifCall, scanRec, scanCall, applyResult, patcherVars>>

Next == LoadPolicy \/ New \/ Scan \/ Apply \/ CreatePR

Spec == Init /\ [][Next]_vars

ExitPolicyViolation == 20    \* README, Exit Codes
ExitFatal == 1               \* log.Fatal in main

\* The exit status the process ends with: scan calls os.Exit(res.ExitCode),
\* every error a RunE returns reaches log.Fatal in main, and a command that
\* returns nil ends with 0.
ProcessExit ==
    IF pc \in {"loadFailed", "newFailed"} THEN ExitFatal
    ELSE IF scanRec.called THEN (IF scanRec.err # Nil THEN ExitFatal ELSE scanRec.ExitCode)
    ELSE IF applyResult.called
         THEN (IF applyResult.err # Nil \/ ~applyResult.Success THEN ExitFatal ELSE 0)
    ELSE IF prResult.called THEN (IF prResult.err # Nil THEN ExitFatal ELSE 0)
    ELSE 0

(***************************************************************************)
(* SpecScan: an Engine, built over a Runner and an AuditLogger, whose Scan *)
(* is called once with drawn options in a drawn environment.  The audit    *)
(* log file may refuse any of the writes.                                  *)
(***************************************************************************)
ErrLogWrite == "audit log write failed"

\* A plausible slip: Scan gives up when a record could not be written.
ScanLoggedFatal(file, allow, timeout, red, workspace, opts, env) ==
    With(ScanOp(allow, timeout, red, workspace, opts, env),
         LAMBDA r :
            With(writeEntries(file, r.log, env.logWrites, 1),
                 LAMBDA f :
                    IF Len(f) < Len(file) + Len(r.log)
                    THEN [file |-> f,
                          scan |-> [r EXCEPT !.returned = FALSE, !.SARIF = NoSARIF,
                                             !.Plan = NoPlan, !.ExitCode = 0,
                                             !.Summary = <<>>, !.err = ErrLogWrite]]
                    ELSE [file |-> f, scan |-> r]))

\* Engine.Scan with the logger's writes: the audit log file after the call
\* and what Scan returns.
ScanLogged(file, allow, timeout, red, workspace, opts, env) ==
    With(ScanOp(allow, timeout, red, workspace, opts, env),
         LAMBDA r : [file |-> writeEntries(file, r.log, env.logWrites, 1), scan |-> r])

LogWrites == [1..MaxLogWrites -> BOOLEAN]
AllWritten == [i \in 1..MaxLogWrites |-> TRUE]

ScanCallEnvs ==
    [semgrepOnPath : BOOLEAN, codeqlOnPath : BOOLEAN,
     semgrepProc : ProcOutcomes(300), parseOk : BOOLEAN,
     findings : SeqsUpTo(Severities, 1),
     covProc : ProcOutcomes(300), walkOk : BOOLEAN,
     symbols : {<<>>, <<[Exported |-> FALSE, References |-> 0]>>},
     logWrites : LogWrites]

\* engine.New over an allowlist that lists the adapters' commands or over
\* the default one.
InitScan ==
    /\ Allow \in {ScanAllowlist, DefaultAllowlist}
    /\ Timeout = 300
    /\ redact = TRUE
    /\ auditLog = <<>>
    /\ scanCall \in [opts : [Security : BOOLEAN, DeadCode : BOOLEAN],
                     env : ScanCallEnvs, done : {FALSE}]
    /\ scanRec = NoScan
    /\ trace = <<>>
    /\ runResult = NoRun
    /\ logCall = NoLogCall
    /\ loadRec = None
    /\ sarifCall = NoSarifCall
    /\ applyResult = None
    /\ prResult = None
    /\ pc = "idle"
    /\ IdlePatcher

\* Engine.Scan on the drawn options and environment
ScanOnce ==
    /\ ~scanCall.done
    /\ \E r \in {ScanLogged(auditLog, Allow, Timeout, redact, Workspace,
                            scanCall.opts, scanCall.env)} :
          /\ auditLog' = r.file
          /\ trace' = r.scan.events
          /\ scanRec' = [called |-> TRUE, opts |-> scanCall.opts,
                         returned |-> r.scan.returned, SARIF |-> r.scan.SARIF,
                         Plan |-> r.scan.Plan, ExitCode |-> r.scan.ExitCode,
                         Summary |-> r.scan.Summary, results |-> r.scan.results,
                         symbols |-> r.scan.symbols, err |-> r.scan.err]
    /\ scanCall' = [scanCall EXCEPT !.done = TRUE]
    /\ UNCHANGED <<runnerVars, redact, runResult, logCall, loadRec, sarifCall,
                   applyResult, prResult, pc, patcherVars>>

NextScan == ScanOnce

SpecScan == InitScan /\ [][NextScan]_vars

(***************************************************************************)
(* SpecLogOps: an AuditLogger built by NewAuditLogger on which one of the  *)
(* logging operations is called with the drawn arguments and error text.   *)
(***************************************************************************)
InitLogOps ==
    /\ redact \in BOOLEAN
    /\ auditLog = <<>>
    /\ logCall \in [args : {<<>>, <<RedactedArg>>, <<nF, nWs>>}, err : LogErrors,
                    done : {FALSE}]
    /\ loadRec = None
    /\ sarifCall = NoSarifCall
    /\ scanRec = None
    /\ scanCall = NoScanCall
    /\ applyResult = None
    /\ prResult = None
    /\ pc = "idle"
    /\ trace = <<>>
    /\ IdleRunner
    /\ IdlePatcher

\* The call wrote entry.
Logged(entry) ==
    /\ ~logCall.done
    /\ logCall' = [logCall EXCEPT !.done = TRUE]
    /\ auditLog' = writeEntry(auditLog, entry, TRUE)
    /\ UNCHANGED <<runnerVars, redact, trace, runResult, loadRec, sarifCall, scanRec,
                   scanCall, applyResult, prResult, pc, patcherVars>>

\* AuditLogger.LogToolCall
ToolCallLogged ==
    Logged(LogToolCall(redact, "step", "tool", logCall.args, "ok", logCall.err))

\* AuditLogger.LogLLMCall
LLMCallLogged ==
    Logged(LogLLMCall(redact, "step", "model", Len(logCall.args), "ok", logCall.err))

\* AuditLogger.LogScanResult
ScanResultLogged ==
    Logged(LogScanResult("step", Len(logCall.args)))

\* AuditLogger.LogPatchApplication
PatchApplicationLogged ==
    Logged(LogPatchApplication(redact, "step", logCall.args, logCall.err = Nil, logCall.err))

\* AuditLogger.LogPolicyViolation, whose violation is a string
PolicyViolationLogged ==
    /\ logCall.err # Nil
    /\ Logged(LogPolicyViolation(redact, "step", logCall.err))

NextLogOps ==
    \/ ToolCallLogged
    \/ LLMCallLogged
    \/ ScanResultLogged
    \/ PatchApplicationLogged
    \/ PolicyViolationLogged

SpecLogOps == InitLogOps /\ [][NextLogOps]_vars

(***************************************************************************)
(* Claims about the Patcher (SpecPatcher).                                 *)
(***************************************************************************)
GuardCalled == patchCall.op = "isPathAllowed" /\ patchCall.done
GuardAnswer == trace[1].ok
PatchCalled == patchCall.op = "ApplyPatch" /\ patchCall.done

\* The absolute form of path lies in the workspace directory: the elements
\* of the workspace root are the first elements of the path.
InsideWorkspace(path) ==
    LET a == Split(Abs(cwd, Clean(path)))
        w == Split(Abs(cwd, patcher.Workspace))
    IN  Len(w) <= Len(a) /\ SubSeq(a, 1, Len(w)) = w

\* C6: the guard denies every path whose absolute form is not inside the
\* workspace directory, whatever the deny lists, empty ones included.
C6_OutsideWorkspaceDenied ==
    (GuardCalled /\ ~InsideWorkspace(patchCall.path)) => ~GuardAnswer

DenyPrefixHit(path) ==
    \E k \in 1..Len(patcher.DenyPaths) : HasPrefix(path, patcher.DenyPaths[k])
DenyGlobHit(path) ==
    \E k \in 1..Len(patcher.DenyGlobs) : Match(patcher.DenyGlobs[k], path)

\* C7: a path whose cleaned form starts with a configured deny-path prefix is
\* denied by the guard, whatever the deny globs and the workspace.
C7_DenyPrefixDenied ==
    (GuardCalled /\ DenyPrefixHit(Clean(patchCall.path))) => ~GuardAnswer

\* A denied path that only its cleaned form puts under a deny prefix, that no
\* glob matches and that lies in the workspace.
C7_Witness ==
    /\ GuardCalled
    /\ DenyPrefixHit(Clean(patchCall.path))
    /\ ~DenyPrefixHit(patchCall.path)
    /\ ~DenyGlobHit(Clean(patchCall.path))
    /\ InsideWorkspace(patchCall.path)
    /\ ~GuardAnswer

\* The file is in a .sentinel or .git directory of the workspace, at any
\* depth.
InPolicyDir(path) ==
    LET a == Split(Abs(cwd, Clean(path)))
        w == Split(Abs(cwd, patcher.Workspace))
    IN  /\ InsideWorkspace(path)
        /\ \E i \in (Len(w) + 1)..(Len(a) - 1) : a[i] \in {nSentinel, nGit}

\* C8: under the default deny paths and deny globs the guard denies every
\* file in a .sentinel or .git directory of the workspace, given relative to
\* the workspace or as an absolute path.
C8_PolicyDirsDenied ==
    ( /\ GuardCalled
      /\ patcher.DenyPaths = DefaultDenyPaths
      /\ patcher.DenyGlobs = DefaultDenyGlobs
      /\ (IsAbs(patchCall.path) \/ cwd = Abs(cwd, patcher.Workspace))
      /\ InPolicyDir(patchCall.path) ) => ~GuardAnswer

DeniedTargets ==
    {i \in 1..Len(patchCall.diff) : ~isPathAllowed(patcher, cwd, patchCall.diff[i])}

\* C9: when the guard denies a target file of the patch set, ApplyPatch
\* attempts the mutation of no file of the set and its result names a denied
\* file.
C9_AllOrNothing ==
    (PatchCalled /\ DeniedTargets # {}) =>
        /\ \A i \in 1..Len(trace) : trace[i].kind # "apply"
        /\ \E i \in DeniedTargets, m \in 1..Len(patchResult.Error) :
              patchResult.Error[m].file = patchCall.diff[i]

(***************************************************************************)
(* Claims about the Engine (Spec).                                         *)
(***************************************************************************)
RECURSIVE TotalFindings(_)
TotalFindings(results) ==
    IF results = <<>> THEN 0
    ELSE Len(results[1].Findings) + TotalFindings(Tail(results))

\* C4: a successful Scan's exit code is decided by the two totals alone: 10
\* when there is a security finding, else 11 when there is a dead-code symbol,
\* else 0; a kind that was not requested contributes nothing.
C4_ExitCodeByTotals ==
    (scanRec.called /\ scanRec.returned) =>
        /\ scanRec.ExitCode =
              IF TotalFindings(scanRec.results) > 0 THEN 10
              ELSE IF Len(scanRec.symbols) > 0 THEN 11
              ELSE 0
        /\ (~scanRec.opts.Security => scanRec.results = <<>>)
        /\ (~scanRec.opts.DeadCode => scanRec.symbols = <<>>)

\* A scan that found both a security finding and a dead-code symbol.
C4_Witness ==
    /\ scanRec.called
    /\ scanRec.returned
    /\ TotalFindings(scanRec.results) > 0
    /\ Len(scanRec.symbols) > 0
    /\ scanRec.ExitCode = 10

DeniedChecks == {i \in 1..Len(trace) : trace[i].kind = "check" /\ ~trace[i].ok}
ErrorToolRuns ==
    {i \in 1..Len(auditLog) :
        auditLog[i].Event = "tool.run" /\ auditLog[i].Status = "error"}

\* C5: after a Scan in which the Runner denied k commands the audit log holds
\* exactly k tool.run records with status error.
C5_OneRecordPerDenial ==
    scanRec.called => Cardinality(ErrorToolRuns) = Cardinality(DeniedChecks)

\* C10: Apply and CreatePR end with a failure (an error, or a result that
\* is not a success) and report neither Success nor a pull-request URL.
C10_StubsFailLoudly ==
    /\ applyResult.called => (applyResult.err # Nil \/ ~applyResult.Success)
    /\ prResult.called => (prResult.err # Nil /\ prResult.URL = "")

\* C11: a scan in which the Runner denied a command ends the process with
\* exit code 20, never with 0, 10 or 11.
C11_DenialExits20 ==
    (pc = "done" /\ scanRec.called /\ DeniedChecks # {}) =>
        ProcessExit = ExitPolicyViolation

(***************************************************************************)
(* Claims about the audit logger (SpecLogger).                             *)
(***************************************************************************)
LogCalled == logCall.done
Written   == auditLog[Len(auditLog)]

Keywords ==
    { <<"k", "e", "y">>, <<"t", "o", "k", "e", "n">>, <<"s", "e", "c", "r", "e", "t">>,
      <<"p", "a", "s", "s", "w", "o", "r", "d">>, <<"a", "u", "t", "h">> }
Letters == Range(LowerCase) \cup Range(UpperCase)

\* a holds one of the keywords, whatever the case of its letters
MentionsKeyword(a) ==
    \E kw \in Keywords : \E i \in 0..(Len(a) - Len(kw)) :
        \A j \in 1..Len(kw) : LowerChar(a[i + j]) = kw[j]
HasLetterAndDigit(a) ==
    /\ \E i \in 1..Len(a) : a[i] \in Letters
    /\ \E i \in 1..Len(a) : a[i] \in Digits
MustRedact(a) == Len(a) > 20 /\ (MentionsKeyword(a) \/ HasLetterAndDigit(a))

\* C12: with redaction enabled a logged argument is the marker exactly when
\* the argument is longer than 20 characters and holds a sensitive keyword
\* (in any case) or both a letter and a digit; every other argument, and so
\* every argument of 20 characters or less, is written as it was given.
C12_ArgRedactedIff ==
    (LogCalled /\ redact) =>
        /\ Len(Written.Args) = Len(logCall.args)
        /\ \A i \in 1..Len(logCall.args) :
              Written.Args[i] = IF MustRedact(logCall.args[i]) THEN RedactedArg
                                ELSE logCall.args[i]

\* Two arguments were logged: a 20-character one holding "token", written
\* as given, and a longer one that was replaced.
C12_Witness ==
    /\ LogCalled
    /\ redact
    /\ Len(logCall.args) = 2
    /\ Len(logCall.args[1]) = 20
    /\ MentionsKeyword(logCall.args[1])
    /\ Written.Args[1] = logCall.args[1]
    /\ Written.Args[2] = RedactedArg
    /\ logCall.args[2] # RedactedArg

\* C13: with redaction enabled an error text is the error marker exactly
\* when it is longer than 100 characters and is otherwise written as given;
\* with redaction disabled the error text and the arguments are written as
\* given.
C13_ErrorRedactedIff ==
    LogCalled =>
        /\ (redact /\ logCall.err # Nil) =>
              Written.Error = IF Len(logCall.err) > 100 THEN RedactedError ELSE logCall.err
        /\ (~redact /\ logCall.err # Nil) => Written.Error = logCall.err
        /\ ~redact => Written.Args = logCall.args

\* An error of 101 characters was replaced by the marker.
C13_Witness ==
    /\ LogCalled
    /\ redact
    /\ logCall.err # Nil
    /\ Len(logCall.err) = 101
    /\ Written.Error = RedactedError

\* C14: redaction applied to what redaction wrote gives the same arguments
\* and the same error text; the two markers are left as they are.
C14_RedactionIdempotent ==
    LogCalled =>
        /\ maybeRedactArgs(redact, Written.Args) = Written.Args
        /\ maybeRedactError(redact, Written.Error) = Written.Error
        /\ maybeRedactArgs(redact, <<RedactedArg>>) = <<RedactedArg>>
        /\ maybeRedactError(redact, RedactedError) = RedactedError

\* A record in which an argument and the error text were both replaced.
C14_Witness ==
    /\ LogCalled
    /\ redact
    /\ Len(logCall.args) >= 1
    /\ logCall.args[1] # RedactedArg
    /\ Written.Args[1] = RedactedArg
    /\ logCall.err # Nil
    /\ logCall.err # RedactedError
    /\ Written.Error = RedactedError

(***************************************************************************)
(* Claims about the SARIF document (SpecSarif) and Scan's artifacts (Spec). *)
(***************************************************************************)
SarifWritten == sarifCall.done

\* The level the mapping gives a severity that is already in lower case.
LevelOfLower(sev) ==
    IF sev \in {sevCritical, sevHigh, sevError} THEN "error"
    ELSE IF sev \in {sevMedium, sevWarning} THEN "warning"
    ELSE "note"

\* The run of the document made from the i-th result without an error.
RunOfResult(i) ==
    sarifCall.doc.runs[Cardinality({j \in 1..i : sarifCall.results[j].Error = ""})]

\* C17: whatever the case of its letters, a severity of critical, high or
\* error gives the level "error", medium or warning gives "warning", and
\* low, info and any other string, the empty one included, give "note".
C17_SeverityLevels ==
    SarifWritten =>
        \A i \in 1..Len(sarifCall.results) :
            sarifCall.results[i].Error = "" =>
                \A k \in 1..Len(sarifCall.results[i].Findings) :
                    RunOfResult(i).results[k].level =
                        LevelOfLower(ToLowerChars(sarifCall.results[i].Findings[k].Severity))

\* A finding whose severity is HIGH in capitals got the level "error".
C17_Witness ==
    /\ SarifWritten
    /\ Len(sarifCall.results) = 1
    /\ sarifCall.results[1].Findings = <<[Severity |-> <<"H", "I", "G", "H">>]>>
    /\ Len(sarifCall.doc.runs) = 1
    /\ sarifCall.doc.runs[1].results[1].level = "error"

\* The results without an error, as positions of the input.
Unfailed == {i \in 1..Len(sarifCall.results) : sarifCall.results[i].Error = ""}

\* C27: the document has exactly one run per adapter result whose Error is
\* empty, in the order of the input, and none for a result with an error;
\* each run names its result's tool and holds exactly one result per finding
\* of that adapter result, in the findings' order.
C27_RunsMirrorResults ==
    SarifWritten =>
        /\ Len(sarifCall.doc.runs) = Cardinality(Unfailed)
        /\ \A i \in Unfailed :
              /\ RunOfResult(i).tool = sarifCall.results[i].Tool
              /\ Len(RunOfResult(i).results) = Len(sarifCall.results[i].Findings)
              /\ \A k \in 1..Len(sarifCall.results[i].Findings) :
                    RunOfResult(i).results[k].level =
                        LevelOfLower(ToLowerChars(sarifCall.results[i].Findings[k].Severity))

\* A failed result followed by one with a high and a low finding: one run,
\* whose two results are "error" and "note" in that order.
C27_Witness ==
    /\ SarifWritten
    /\ Len(sarifCall.results) = 2
    /\ sarifCall.results[1].Error # ""
    /\ sarifCall.results[2].Error = ""
    /\ Len(sarifCall.results[2].Findings) = 2
    /\ Len(sarifCall.doc.runs) = 1
    /\ sarifCall.doc.runs[1].tool = sarifCall.results[2].Tool
    /\ sarifCall.doc.runs[1].results = <<[level |-> "error"], [level |-> "note"]>>

\* C16: every successful Scan returns a SARIF document of version 2.1.0
\* whose "runs" is a list, empty when there is no run, and a plan of exactly
\* one step.
C16_SarifSkeleton ==
    (scanRec.called /\ scanRec.returned) =>
        /\ scanRec.SARIF.version = "2.1.0"
        /\ ~scanRec.SARIF.runsNil
        /\ Len(scanRec.Plan.Steps) = 1

(***************************************************************************)
(* Claims about policy loading (Spec).                                     *)
(***************************************************************************)
ShouldReject(p) == Len(p.Commands) = 0 \/ p.MaxIterations <= 0 \/ p.MaxFiles <= 0

\* C18: Validate returns an error exactly for a policy whose allowlist is
\* empty or whose maxIterations or maxFiles is not positive; the default
\* policy passes.
C18_ValidateIff ==
    /\ Validate(DefaultPolicy) = Nil
    /\ (loadRec.called /\ loadRec.read = "parsed") =>
          ((loadRec.err # Nil) <=> ShouldReject(loadRec.file))

\* A file whose allowlist and maxIterations are fine was rejected for its
\* maxFiles of 0.
C18_Witness ==
    /\ loadRec.called
    /\ loadRec.read = "parsed"
    /\ Len(loadRec.file.Commands) > 0
    /\ loadRec.file.MaxIterations > 0
    /\ loadRec.file.MaxFiles = 0
    /\ loadRec.err = ErrMaxFiles

\* engine.New has built the Runner (line 92), whether or not the logger's
\* file could then be opened.
RunnerBuilt == pc \in {"ready", "done", "newFailed"}

\* C19: a Runner is built only from a policy that passes Validate, which is
\* the default policy or a file policy that Load validated; a failed load
\* ends the command with no Runner built and no engine call made; an empty
\* policy path gives the default policy and no error.
C19_RunnerFromValidPolicy ==
    /\ RunnerBuilt =>
          /\ loadRec.called
          /\ loadRec.err = Nil
          /\ Validate(loadRec.policy) = Nil
          /\ Allow = loadRec.policy.Commands
          /\ \/ loadRec.policy = DefaultPolicy
             \/ loadRec.read = "parsed" /\ loadRec.policy = loadRec.file
    /\ (loadRec.called /\ loadRec.err # Nil) =>
          /\ pc = "loadFailed"
          /\ Allow = <<>>
          /\ ~scanRec.called /\ ~applyResult.called /\ ~prResult.called
    /\ (loadRec.called /\ loadRec.path = "") =>
          loadRec.policy = DefaultPolicy /\ loadRec.err = Nil

\* A scan was made by an engine whose Runner came from a policy file.
C19_Witness ==
    /\ pc = "done"
    /\ scanRec.called
    /\ loadRec.path # ""
    /\ loadRec.read = "parsed"
    /\ Allow = loadRec.file.Commands

(***************************************************************************)
(* Claims about the order of the audit records (Spec).                     *)
(***************************************************************************)
IsLogOrAdapter(e) == e.kind \in {"log", "adapter"}

\* What a step appended to the audit log.
Appended == SubSeq(auditLog', Len(auditLog) + 1, Len(auditLog'))

LogKinds(log) == [i \in 1..Len(log) |-> <<log[i].Step, log[i].Event, log[i].Status>>]

\* The log writes and adapter calls a Scan of the given kinds makes, in
\* order, when it wrote the records recs.
ExpectedOrder(opts, recs) ==
    IF opts.Security /\ opts.DeadCode
    THEN <<LogEv(recs[1]), AdapterEv("scanner"), LogEv(recs[2]),
           LogEv(recs[3]), AdapterEv("detector"), LogEv(recs[4])>>
    ELSE IF opts.Security
    THEN <<LogEv(recs[1]), AdapterEv("scanner"), LogEv(recs[2])>>
    ELSE IF opts.DeadCode
    THEN <<LogEv(recs[1]), AdapterEv("detector"), LogEv(recs[2])>>
    ELSE <<>>

ExpectedKinds(opts) ==
    (IF opts.Security
     THEN << <<"security", "tool.run", "started">>, <<"security", "scan.result", "ok">> >>
     ELSE <<>>)
    \o (IF opts.DeadCode
        THEN << <<"deadcode", "tool.run", "started">>, <<"deadcode", "scan.result", "ok">> >>
        ELSE <<>>)

ScanStep == ~scanRec.called /\ scanRec'.called

\* C20: every step leaves the records already in the log as they are and
\* where they are; a Scan appends, per requested kind and security first, a
\* "started" record and then a "scan.result" record; each "started" record
\* is written before its adapter is called, the adapter's commands run
\* after that call, and the result record is written after them.
C20_LogOrder ==
    [][ /\ Len(auditLog') >= Len(auditLog)
        /\ SubSeq(auditLog', 1, Len(auditLog)) = auditLog
        /\ ScanStep =>
              /\ LogKinds(Appended) = ExpectedKinds(scanRec'.opts)
              /\ SelectSeq(trace', IsLogOrAdapter) = ExpectedOrder(scanRec'.opts, Appended)
              /\ \A i \in 1..Len(trace') :
                    trace'[i].kind \in {"check", "start"} =>
                        i > 1 /\ trace'[i - 1].kind \in {"adapter", "check", "start"}
      ]_vars

\* A Scan of both kinds, in which a command ran, added its four records to a
\* log that already held one.
C20_Witness ==
    /\ scanRec.called
    /\ scanRec.opts.Security /\ scanRec.opts.DeadCode
    /\ Len(auditLog) = 5
    /\ \E i \in 1..Len(trace) : trace[i].kind = "start"

(***************************************************************************)
(* Claims about a Scan whose log writes may fail (SpecScan).               *)
(***************************************************************************)
ScanCalled == scanCall.done

\* What the caller of Scan gets.
ScanOutcome(r) == <<r.returned, r.ExitCode, r.SARIF, r.Plan, r.err>>

\* The log calls the Scan made, and those among them whose write failed.
LogCallsMade == {i \in 1..Len(trace) : trace[i].kind = "log"}
FailedWrites ==
    {k \in 1..Cardinality(LogCallsMade) : ~scanCall.env.logWrites[k]}

\* C21: audit logging is best-effort: Scan returns the same exit code, SARIF,
\* plan and error as it returns, on the same options and environment, when
\* every log write succeeds; the failed writes are only missing from the
\* file.
C21_LogFailureHarmless ==
    ScanCalled =>
        /\ ScanOutcome(scanRec) =
              ScanOutcome(ScanLogged(<<>>, Allow, Timeout, redact, Workspace,
                                     scanCall.opts,
                                     [scanCall.env EXCEPT !.logWrites = AllWritten]).scan)
        /\ Len(auditLog) = Cardinality(LogCallsMade) - Cardinality(FailedWrites)

\* A scan that found a security finding and dead code while none of its four
\* records reached the file: it still returns exit code 10, a SARIF document
\* and the plan.
C21_Witness ==
    /\ ScanCalled
    /\ Cardinality(LogCallsMade) = 4
    /\ Cardinality(FailedWrites) = 4
    /\ auditLog = <<>>
    /\ scanRec.returned
    /\ scanRec.err = Nil
    /\ scanRec.ExitCode = ExitSecurity
    /\ scanRec.Plan = BasicPlan
    /\ Len(scanRec.symbols) = 1

\* The external tool did not deliver: it is missing, the Runner denied it,
\* it could not be started or was killed at the timeout, or its output does
\* not parse.
ProcFailed(outcome) == outcome \in {"startFail", "killed", "expired"}
SemgrepFailed ==
    \/ ~scanCall.env.semgrepOnPath
    \/ ~allowed(Allow, "semgrep", SemgrepArgs(Workspace))
    \/ ProcFailed(scanCall.env.semgrepProc)
    \/ (scanCall.env.semgrepProc = "exit0" /\ ~scanCall.env.parseOk)
CoverageFailed ==
    \/ ~allowed(Allow, "go", CoverageArgs)
    \/ ProcFailed(scanCall.env.covProc)

\* What Detect returned in the Scan.
Detected == Detect(Allow, Timeout, scanCall.env)

\* C22: a failed external tool is never fatal to the scan: Scan returns a
\* ScanResult and a nil error, and for every failure of semgrep, of codeql
\* (which always fails) or of the coverage command the adapter returns a nil
\* error and an empty finding set with the failure recorded in its result.
C22_ToolFailureNotFatal ==
    ScanCalled =>
        /\ scanRec.returned
        /\ scanRec.err = Nil
        /\ (scanRec.opts.Security /\ SemgrepFailed) =>
              /\ scanRec.results[1].Findings = <<>>
              /\ scanRec.results[1].Error # ""
        /\ scanRec.opts.Security =>
              /\ scanRec.results[2].Findings = <<>>
              /\ scanRec.results[2].Error # ""
        /\ (scanRec.opts.DeadCode /\ CoverageFailed) =>
              /\ Detected.err = Nil
              /\ scanRec.symbols = <<>>
              /\ Detected.result.Error # ""

(***************************************************************************)
(* Claims about what Run returns for a process it started (SpecRunner).    *)
(***************************************************************************)
ProcessStarted == \E i \in 1..Len(trace) : trace[i].kind = "start"

\* C23: when the process of an allowed command ran to completion with a
\* non-zero exit status, the RunResult carries that exit code and a nil
\* Error.
C23_NonZeroExitNoError ==
    (RunCalled /\ ProcessStarted /\ runResult.ExitCode > 0) => runResult.Error = Nil

(***************************************************************************)
(* Claims about a Run whose context ends (SpecRunSteps).                   *)
(***************************************************************************)
ProcessAlive == HasEvent("start") /\ ~HasEvent("exit")
RunReturned  == pc = "returned"

\* The context ended while the process was running and the process was
\* killed for it.
KilledAtCtxDone == HasEvent("ctxDone") /\ HasEvent("kill")

\* A Run whose context ends while its process runs does return.
RunEventuallyReturns == (pc = "ctxDone") ~> RunReturned

\* C24: when the process of an allowed command is still running at the
\* timeout (or when the caller's context is cancelled), Run kills it and
\* returns with the context's deadline (or cancellation) error in the
\* RunResult, and no process Run started is running once Run has returned.
C24_CtxErrorAfterKill ==
    /\ (RunReturned /\ KilledAtCtxDone) =>
          runResult.Error = CtxErr(EventOf("ctxDone").cmd)
    /\ RunReturned => ~ProcessAlive

(***************************************************************************)
(* Claims about the wrappers (SpecWrappers).                               *)
(***************************************************************************)
WrapperCalled == trace # <<>> /\ trace[1].kind = "call"
Found(file)   == \E i \in 1..Len(trace) :
                    trace[i].kind = "lookpath" /\ trace[i].cmd = file /\ trace[i].ok

\* The invocation the wrapper stands for, as <<program, args>>, or <<>> when
\* Build finds no build system.
CanonicalVector ==
    LET w   == trace[1].cmd
        arg == trace[1].args[1]
    IN  CASE w = "Build" /\ arg # ""  -> <<"go", <<"build", arg>> >>
          [] w = "Build" /\ arg = ""  ->
                IF Found("go") THEN <<"go", <<"build", "./...">> >>
                ELSE IF Found("cargo") THEN <<"cargo", <<"build">> >>
                ELSE <<>>
          [] w = "Test" /\ arg = ""   -> <<"go", <<"test", "-cover", "./...">> >>
          [] w = "Test" /\ arg # ""   -> <<"go", <<"test", "-run", arg, "-cover", "./...">> >>
          [] w = "Coverage"           -> <<"go", <<"test", "-coverprofile=coverage.out", "./...">> >>

Starts == {i \in 1..Len(trace) : trace[i].kind = "start"}

\* C25: the wrappers add no bypass: every process Build, Test or Coverage
\* starts follows, in the same call, an allowlist check that passed for the
\* wrapper's canonical invocation, which some allowlist tuple spells out
\* exactly; and a wrapper whose canonical invocation is not an exact tuple
\* returns the "not allowlisted" error and starts nothing.
C25_WrappersNoBypass ==
    WrapperCalled =>
        /\ \A i \in Starts :
              /\ trace[i - 1].kind = "check"
              /\ trace[i - 1].ok
              /\ <<trace[i].cmd, trace[i].args>> = CanonicalVector
              /\ <<trace[i - 1].cmd, trace[i - 1].args>> = CanonicalVector
              /\ InAllowlist(trace[i].cmd, trace[i].args)
        /\ (CanonicalVector # <<>> /\ ~InAllowlist(CanonicalVector[1], CanonicalVector[2])) =>
              /\ runResult.Error = ErrNotAllowlisted
              /\ Starts = {}
        /\ CanonicalVector = <<>> => Starts = {}

\* Under the default policy's allowlist, whose tuple is "go build", Build
\* with no target asks for "go build ./..." and is denied.
C25_Witness ==
    /\ WrapperCalled
    /\ Allow = DefaultAllowlist
    /\ trace[1].cmd = "Build"
    /\ CanonicalVector = <<"go", <<"build", "./...">> >>
    /\ runResult.Error = ErrNotAllowlisted
    /\ Starts = {}

(***************************************************************************)
(* Claims about the error text of any record (SpecLogOps).                 *)
(***************************************************************************)
\* Every record but those LogPolicyViolation wrote has an error text of at
\* most 100 characters when redaction is on.
OtherErrorsRedacted ==
    redact => \A i \in 1..Len(auditLog) :
                 auditLog[i].Event # "policy.violation" => Len(auditLog[i].Error) <= 100

\* C26: with PII redaction enabled no record of the audit log, whichever
\* logging operation wrote it, carries an error text longer than 100
\* characters.
C26_EveryErrorRedacted ==
    redact => \A i \in 1..Len(auditLog) : Len(auditLog[i].Error) <= 100

(***************************************************************************)
(* Claims about the two allowlist matchers (SpecRunner).                   *)
(***************************************************************************)
\* A Policy holding the Runner's allowlist, as engine.New pairs them.
PolicyOfRunner == Policy(Allow, Timeout, FALSE, 4, 4000)

\* C28: the answer Runner.allowed gave for an invocation is the answer
\* Policy.IsCommandAllowed gives for it on a Policy that holds the Runner's
\* allowlist.
C28_MatchersAgree ==
    RunCalled =>
        LastCheck.ok = IsCommandAllowed(PolicyOfRunner, LastCheck.cmd, LastCheck.args)

\* An invocation with an argument that both matchers allow by the second
\* tuple of the allowlist, the first having the same program.
C28_Witness ==
    /\ RunCalled
    /\ Len(Allow) = 2
    /\ Allow[1] # <<>>
    /\ Allow[1][1] = LastCheck.cmd
    /\ ~TupleIs(Allow[1], LastCheck.cmd, LastCheck.args)
    /\ Len(LastCheck.args) >= 1
    /\ LastCheck.ok
    /\ IsCommandAllowed(PolicyOfRunner, LastCheck.cmd, LastCheck.args)

(***************************************************************************)
(* Claims about a scan under the default policy (Spec).                    *)
(***************************************************************************)
DefaultLoaded == loadRec.called /\ loadRec.err = Nil /\ loadRec.policy = DefaultPolicy

ChecksMade == {i \in 1..Len(trace) : trace[i].kind = "check"}

\* C29: under the default policy every command the scan adapters issue is
\* denied by the Runner, so a scan starts no external process and never
\* returns exit code 10.
C29_DefaultPolicyDeniesAdapters ==
    (scanRec.called /\ DefaultLoaded) =>
        /\ \A i \in ChecksMade : ~trace[i].ok
        /\ Starts = {}
        /\ scanRec.ExitCode # ExitSecurity

\* A scan of both kinds under the default policy with semgrep on PATH: the
\* semgrep and the coverage invocation were both denied, and the dead code
\* found without coverage gives exit code 11.
C29_Witness ==
    /\ scanRec.called
    /\ DefaultLoaded
    /\ Cardinality(ChecksMade) = 2
    /\ \E i \in ChecksMade :
          /\ trace[i].cmd = "semgrep"
          /\ trace[i].args = <<"--config", "auto", "--json", Workspace>>
          /\ ~trace[i].ok
    /\ \E i \in ChecksMade :
          /\ trace[i].cmd = "go"
          /\ trace[i].args = CoverageArgs
          /\ ~trace[i].ok
    /\ scanRec.returned
    /\ scanRec.ExitCode = ExitDeadCode

(***************************************************************************)
(* Claims about the Runner's timeout (Spec).                               *)
(***************************************************************************)
\* C30: every policy Load accepts gives the Runner that engine.New builds a
\* strictly positive timeout.
C30_RunnerTimeoutPositive == RunnerBuilt => Timeout > 0

====
